---- MODULE Spec2Model ----
(***************************************************************************)
(* Execution engine of pipeliner: the step interpreter and the stage /     *)
(* pipeline orchestrators.  The repository holds two engines:              *)
(*   - the asynchronous StepExecutor with its strategies                   *)
(*     (crates/pipeliner-executor/src/{runtime,strategy}.rs), and          *)
(*   - the synchronous LocalExecutor (src/executor/local.rs).              *)
(* Both are modelled; the variable engine says which one a behaviour runs. *)
(*                                                                         *)
(* Time is counted in ticks of 100ms.  The shell backend is the operator   *)
(* Backend: what the k-th invocation of a command does.                    *)
(***************************************************************************)
EXTENDS Integers, Sequences, FiniteSets, TLC

\* ---------------------------------------------------------------- bounds
MaxRetry == 2
MaxSteps == 3

\* ------------------------------------------------------ program constants
RetryBackoff == 10
LocalRetryBackoff == 1

\* ------------------------------------------------------------- the steps
Shell(c) ==
  [type |-> "Shell", command |-> c, count |-> 0, duration |-> 0, steps |-> <<>>,
   includes |-> {}]
Echo(m) ==
  [type |-> "Echo", command |-> m, count |-> 0, duration |-> 0, steps |-> <<>>,
   includes |-> {}]
Retry(n, s) ==
  [type |-> "Retry", command |-> "", count |-> n, duration |-> 0, steps |-> <<s>>,
   includes |-> {}]
Timeout(d, s) ==
  [type |-> "Timeout", command |-> "", count |-> 0, duration |-> d, steps |-> <<s>>,
   includes |-> {}]
Dir(p, ss) ==
  [type |-> "Dir", command |-> p, count |-> 0, duration |-> 0, steps |-> ss,
   includes |-> {}]
\* includes: the files the patterns of the step match.
StashFiles(n, files) ==
  [type |-> "Stash", command |-> n, count |-> 0, duration |-> 0, steps |-> <<>>,
   includes |-> files]
Stash(n) == StashFiles(n, {})
Unstash(n) ==
  [type |-> "Unstash", command |-> n, count |-> 0, duration |-> 0, steps |-> <<>>,
   includes |-> {}]

\* ----------------------------------------------------------- the backend
\* What the k-th invocation of a command does: how it ends ("ok" exit 0,
\* "nonzero" exit code, "ioerr" the process cannot be spawned) and how long
\* it runs.
Backend(command, k) ==
  CASE command = "exit 0"   -> [exit |-> "ok", dur |-> 0]
    [] command = "exit 1"   -> [exit |-> "nonzero", dur |-> 0]
    [] command = "flaky"    -> [exit |-> IF k < 2 THEN "nonzero" ELSE "ok", dur |-> 0]
    [] command = "flaky3"   -> [exit |-> IF k < 3 THEN "nonzero" ELSE "ok", dur |-> 0]
    [] command = "sleep 2"  -> [exit |-> "ok", dur |-> 20]
    [] command = "slowfail" -> [exit |-> "nonzero", dur |-> 20]
    [] command = "noent"    -> [exit |-> "ioerr", dur |-> 0]
    [] command = "late"     -> [exit |-> IF k < 2 THEN "ioerr" ELSE "ok", dur |-> 0]
    [] command = "stale"    -> [exit |-> IF k < 2 THEN "ioerr" ELSE "nonzero", dur |-> 0]
    [] OTHER                -> [exit |-> "ok", dur |-> 0]

\* ------------------------------------------------------------ the context
\* clock and log are the world the run acts on: log lists every execution of
\* a Shell or Echo step (op "run") and every access to the stash map (op
\* "stash", "unstash", what being the stash name), path being the step's
\* position in the step tree and cwd the working directory it runs in.
\* stashes maps a stash name to its path.  fs is what the stash directories
\* on disk hold: <<directory, stash name, file>> for every file copied into
\* <directory>/.pipeliner/stashes/<name>; an entry's files are the files the
\* access copied.
NoStashes == [n \in {} |-> ""]

NewContext ==
  [clock |-> 0, log |-> <<>>, working_dir |-> "/", dir_stack |-> <<>>,
   parameters |-> <<>>, stashes |-> NoStashes, fs |-> {}]

Entry(path, what, ctx) ==
  [path |-> path, what |-> what, t |-> ctx.clock, late |-> FALSE, op |-> "run",
   cwd |-> ctx.working_dir, files |-> {}]

Logged(ctx, path, what) ==
  [ctx EXCEPT !.log = Append(@, Entry(path, what, ctx))]

LoggedAs(ctx, path, what, op, files) ==
  [ctx EXCEPT !.log = Append(@, [Entry(path, what, ctx) EXCEPT !.op = op,
                                                               !.files = files])]

\* What the stash directory of the given name under dir holds.
stash_dir(ctx, dir, name) == {x[3] : x \in {y \in ctx.fs : y[1] = dir /\ y[2] = name}}

\* ExecutionContext::stash and ::unstash: insert into, remove from the map.
stash(ctx, name, path) ==
  [ctx EXCEPT !.stashes = [n \in DOMAIN @ \cup {name} |->
                             IF n = name THEN path ELSE @[n]]]

\* An unstash that left the entry in the map could be repeated.
unstash_keeps(ctx, name) == ctx

unstash(ctx, name) ==
  [ctx EXCEPT !.stashes = [n \in DOMAIN @ \ {name} |-> @[n]]]

Calls(ctx, command) ==
  Cardinality({i \in DOMAIN ctx.log : ctx.log[i].what = command})

push_dir(ctx, path) ==
  [ctx EXCEPT !.dir_stack = Append(@, ctx.working_dir), !.working_dir = path]

pop_dir(ctx) ==
  IF ctx.dir_stack # <<>>
    THEN [ctx EXCEPT !.working_dir = ctx.dir_stack[Len(ctx.dir_stack)],
                     !.dir_stack = SubSeq(@, 1, Len(@) - 1)]
    ELSE ctx

\* Paths are names; those that start at the root are listed here.
AbsolutePaths == {"/", "/srv", "/sub", "/deep", "/sub/deep", "/srv/deep"}

\* The directory a path names when it is resolved against base, as by
\* `Command::current_dir(path)` in a process whose directory is base: an
\* absolute path stands for itself, a relative one is appended to base.
resolve(base, path) ==
  IF path \in AbsolutePaths THEN path
  ELSE CASE <<base, path>> = <<"/", "sub">>     -> "/sub"
         [] <<base, path>> = <<"/", "deep">>    -> "/deep"
         [] <<base, path>> = <<"/sub", "deep">> -> "/sub/deep"
         [] <<base, path>> = <<"/srv", "deep">> -> "/srv/deep"
         [] OTHER                               -> "elsewhere"

\* The directory of the process: ExecutionContext::new starts there.
ProcessCwd == NewContext.working_dir

\* ---------------------------------------------------------------- results
\* k: "ok" a returned value, "err" a returned error, "cancel" the future was
\* dropped at a deadline (StepExecutor), "panic" the thread panicked
\* (LocalExecutor).
Ok(v, ctx) == [k |-> "ok", v |-> v, ctx |-> ctx]
Err(v, ctx) == [k |-> "err", v |-> v, ctx |-> ctx]
Panic(ctx) == [k |-> "panic", v |-> "unwrap on None", ctx |-> ctx]

\* A deadline is <<>> (none) or <<t>>.
InTime(t, dl) == dl = <<>> \/ t <= dl[1]
Dropped(ctx, dl) ==
  [k |-> "cancel", v |-> "Elapsed", ctx |-> [ctx EXCEPT !.clock = dl[1]]]

\* ------------------------------------------------ StepExecutor (runtime.rs)
\* Every operator takes the context and the deadline dl of the innermost
\* enclosing tokio::time::timeout that fires first, and returns a result.
RECURSIVE StepExecutor_execute(_, _, _, _)
RECURSIVE execute_steps_from(_, _, _, _, _)
RECURSIVE execute_retry_from(_, _, _, _, _, _, _)

\* Spawns the command and awaits its exit.  A future dropped at the deadline
\* stops awaiting; the clock then stands at the deadline.
run_command(command, ctx, dl) ==
  LET out == Backend(command, Calls(ctx, command))
  IN IF out.exit = "ioerr" THEN Err("IoError", ctx)
     ELSE IF ~InTime(ctx.clock + out.dur, dl) THEN Dropped(ctx, dl)
     ELSE Ok(out.exit, [ctx EXCEPT !.clock = @ + out.dur])

execute_shell(command, ctx, dl, path) ==
  LET r == run_command(command, Logged(ctx, path, command), dl)
  IN IF r.k # "ok" THEN r
     ELSE IF r.v = "ok" THEN Ok("Success", r.ctx)
     ELSE Ok("Failure", r.ctx)

execute_echo(message, ctx, dl, path) ==
  Ok("Success", Logged(ctx, path, message))

\* tokio::time::sleep between attempts, itself subject to the deadline.
sleep(ticks, ctx, dl) ==
  IF ~InTime(ctx.clock + ticks, dl) THEN Dropped(ctx, dl)
  ELSE Ok("slept", [ctx EXCEPT !.clock = @ + ticks])

execute_retry_from_retries_status(inner, count, attempt, last_error, ctx, dl, path) ==
  IF attempt > count
    THEN Err(IF last_error # <<>> THEN last_error[1] ELSE "RetryExhausted", ctx)
    ELSE LET s == IF attempt > 0 THEN sleep(RetryBackoff, ctx, dl) ELSE Ok("", ctx)
         IN IF s.k = "cancel" THEN s
            ELSE LET r == StepExecutor_execute(inner, s.ctx, dl, Append(path, 1))
                 IN IF r.k = "cancel" \/ (r.k = "ok" /\ r.v = "Success") THEN r
                    ELSE execute_retry_from(inner, count, attempt + 1, <<r.v>>,
                                            r.ctx, dl, path)

\* The body of `for attempt in 0..=count`, from the given attempt on;
\* last_error is <<>> (None) or <<e>>.
execute_retry_from(inner, count, attempt, last_error, ctx, dl, path) ==
  IF attempt > count
    THEN Err(IF last_error # <<>> THEN last_error[1] ELSE "RetryExhausted", ctx)
    ELSE LET s == IF attempt > 0 THEN sleep(RetryBackoff, ctx, dl) ELSE Ok("", ctx)
         IN IF s.k = "cancel" THEN s
            ELSE LET r == StepExecutor_execute(inner, s.ctx, dl, Append(path, 1))
                 IN IF r.k = "err"
                      THEN execute_retry_from(inner, count, attempt + 1, <<r.v>>,
                                              r.ctx, dl, path)
                      ELSE r

execute_retry(inner, count, ctx, dl, path) ==
  execute_retry_from(inner, count, 0, <<>>, ctx, dl, path)

\* tokio::time::timeout polls the inner future before its own timer, so an
\* inner future that is ready at the deadline wins, and of two timers that
\* fire together the inner one reports.
execute_timeout_awaits_inner(inner, duration, ctx, dl, path) ==
  StepExecutor_execute(inner, ctx, dl, Append(path, 1))

execute_timeout(inner, duration, ctx, dl, path) ==
  LET mine == ctx.clock + duration
      first == dl = <<>> \/ mine <= dl[1]
      r == StepExecutor_execute(inner, ctx, IF first THEN <<mine>> ELSE dl,
                                Append(path, 1))
  IN IF r.k = "cancel" /\ first THEN Ok("Timeout", r.ctx) ELSE r

execute_steps_from_errors_only(steps, i, ctx, dl, path) ==
  IF i > Len(steps) THEN Ok("Success", ctx)
  ELSE LET r == StepExecutor_execute(steps[i], ctx, dl, Append(path, i))
       IN IF r.k = "ok"
            THEN execute_steps_from(steps, i + 1, r.ctx, dl, path)
            ELSE r

execute_steps_from(steps, i, ctx, dl, path) ==
  IF i > Len(steps) THEN Ok("Success", ctx)
  ELSE LET r == StepExecutor_execute(steps[i], ctx, dl, Append(path, i))
       IN IF r.k = "ok" /\ r.v = "Success"
            THEN execute_steps_from(steps, i + 1, r.ctx, dl, path)
            ELSE r

execute_steps(steps, ctx, dl, path) ==
  execute_steps_from(steps, 1, ctx, dl, path)

\* A dropped future never reaches pop_dir.
execute_dir(dir, steps, ctx, dl, path) ==
  LET r == execute_steps(steps, push_dir(ctx, dir), dl, path)
  IN IF r.k = "cancel" THEN r ELSE [r EXCEPT !.ctx = pop_dir(r.ctx)]

\* The stash directory is made under the working directory if it is not
\* there (create_dir_all), the matching files are copied into it, and it is
\* registered.
execute_stash(name, includes, ctx, path) ==
  LET copied == [LoggedAs(ctx, path, name, "stash", includes) EXCEPT
                   !.fs = @ \cup {<<ctx.working_dir, name, f>> : f \in includes}]
  IN Ok("Success", stash(copied, name, ctx.working_dir))

\* A registered stash is taken out of the map; a missing one is the status
\* Failure.
\* copy_all copies everything the registered directory holds.
execute_unstash(name, ctx, path) ==
  IF name \in DOMAIN ctx.stashes
    THEN Ok("Success",
            unstash(LoggedAs(ctx, path, name, "unstash",
                             stash_dir(ctx, ctx.stashes[name], name)), name))
    ELSE Ok("Failure", LoggedAs(ctx, path, name, "unstash", {}))

StepExecutor_execute(step, ctx, dl, path) ==
  CASE step.type = "Shell"   -> execute_shell(step.command, ctx, dl, path)
    [] step.type = "Stash"   -> execute_stash(step.command, step.includes, ctx, path)
    [] step.type = "Unstash" -> execute_unstash(step.command, ctx, path)
    [] step.type = "Echo"    -> execute_echo(step.command, ctx, dl, path)
    [] step.type = "Retry"   -> execute_retry(step.steps[1], step.count, ctx, dl, path)
    [] step.type = "Timeout" -> execute_timeout(step.steps[1], step.duration, ctx, dl, path)
    [] step.type = "Dir"     -> execute_dir(step.command, step.steps, ctx, dl, path)
    [] OTHER                 -> Ok("Success", ctx)


\* ------------------------------------------- LocalExecutor (local.rs), steps
\* A step returns Ok(()) ("Unit") or a PipelineError; threads block, there
\* is no deadline to pass down.
RECURSIVE LocalExecutor_execute_step(_, _, _)
RECURSIVE Local_execute_retry_from(_, _, _, _, _, _)

\* ShellCommand::execute: a non-zero exit code is the error CommandFailed.
ShellCommand_execute(command, ctx) ==
  LET out == Backend(command, Calls(ctx, command))
  IN IF out.exit = "ioerr" THEN Err("Io", ctx)
     ELSE IF out.exit = "nonzero"
       THEN Err("CommandFailed", [ctx EXCEPT !.clock = @ + out.dur])
     ELSE Ok("Unit", [ctx EXCEPT !.clock = @ + out.dur])

LocalExecutor_execute_shell(command, ctx, path) ==
  ShellCommand_execute(command, Logged(ctx, path, command))

\* The body of `for attempt in 0..*count`, from the given attempt on, and
\* the `if !succeeded { return Err(last_error.unwrap()) }` after it.
Local_execute_retry_from(inner, count, attempt, last_error, ctx, path) ==
  IF attempt >= count
    THEN IF last_error # <<>> THEN Err(last_error[1], ctx) ELSE Panic(ctx)
    ELSE LET r == LocalExecutor_execute_step(inner, ctx, Append(path, 1))
         IN IF r.k = "err"
              THEN Local_execute_retry_from(inner, count, attempt + 1, <<r.v>>,
                     [r.ctx EXCEPT !.clock = @ + LocalRetryBackoff], path)
              ELSE r

Local_execute_retry(inner, count, ctx, path) ==
  Local_execute_retry_from(inner, count, 0, <<>>, ctx, path)

\* The entries a detached thread logs after the deadline are marked late.
MarkLate(log, from, deadline) ==
  [i \in DOMAIN log |->
     IF i > from /\ log[i].t > deadline THEN [log[i] EXCEPT !.late = TRUE]
     ELSE log[i]]

\* The inner step runs in a spawned thread and the caller waits in
\* recv_timeout(duration).  On Err(_) (the wait elapsed, or the thread
\* panicked and dropped the sender) the caller returns the error Timeout; a
\* thread that is still running is left running.
LocalExecutor_execute_timeout(duration, step, ctx, path) ==
  LET deadline == ctx.clock + duration
      r == LocalExecutor_execute_step(step, ctx, Append(path, 1))
  IN IF r.ctx.clock > deadline
       THEN Err("Timeout", [ctx EXCEPT !.clock = deadline,
                                       !.log = MarkLate(r.ctx.log, Len(ctx.log), deadline)])
     ELSE IF r.k = "panic" THEN Err("Timeout", r.ctx)
     ELSE r

LocalExecutor_execute_step(step, ctx, path) ==
  CASE step.type = "Shell"   -> LocalExecutor_execute_shell(step.command, ctx, path)
    [] step.type = "Echo"    -> Ok("Unit", Logged(ctx, path, step.command))
    [] step.type = "Retry"   -> Local_execute_retry(step.steps[1], step.count, ctx, path)
    [] step.type = "Timeout" ->
         LocalExecutor_execute_timeout(step.duration, step.steps[1], ctx, path)
    [] OTHER                 -> Ok("Unit", ctx)

RECURSIVE Local_execute_steps_from(_, _, _, _)
Local_execute_steps_from(steps, i, ctx, path) ==
  IF i > Len(steps) THEN Ok("Success", ctx)
  ELSE LET r == LocalExecutor_execute_step(steps[i], ctx, Append(path, i))
       IN IF r.k = "ok" THEN Local_execute_steps_from(steps, i + 1, r.ctx, path)
          ELSE r

LocalExecutor_execute_steps(steps, ctx, path) ==
  Local_execute_steps_from(steps, 1, ctx, path)

\* The static variant the branch threads run: Shell and Echo only, every
\* other step type falls into `_ => {}`.
LocalExecutor_execute_step_static(step, ctx, path) ==
  CASE step.type = "Shell" -> ShellCommand_execute(step.command, Logged(ctx, path, step.command))
    [] step.type = "Echo"  -> Ok("Unit", Logged(ctx, path, step.command))
    [] OTHER               -> Ok("Unit", ctx)


\* strategy.rs's own loop over a stage's steps (outside any timeout).
RECURSIVE execute_stage_from(_, _, _, _)
execute_stage_from(steps, i, ctx, path) ==
  IF i > Len(steps) THEN Ok("Success", ctx)
  ELSE LET r == StepExecutor_execute(steps[i], ctx, <<>>, Append(path, i))
       IN IF r.k = "ok" /\ r.v = "Success"
            THEN execute_stage_from(steps, i + 1, r.ctx, path)
            ELSE r

execute_stage(steps, ctx, path) ==
  execute_stage_from(steps, 1, ctx, path)

\* ------------------------------------------------------------- the inputs
Commands ==
  {"exit 0", "exit 1", "flaky", "flaky3", "sleep 2", "slowfail", "noent", "late",
   "stale"}

Durations == {5, 35}

Prims == {Shell(c) : c \in Commands} \cup {Echo("hello")}

Wrapped ==
  {Retry(n, p) : n \in 0..MaxRetry, p \in Prims \cup {Unstash("build")}}
    \cup {Timeout(d, p) : d \in Durations, p \in Prims}

Nested ==
  {Timeout(d, Retry(n, Shell(c))) :
     d \in Durations, n \in 1..MaxRetry, c \in {"noent", "exit 1", "slowfail"}}
    \cup {Retry(n, Timeout(5, Shell(c))) : n \in 1..MaxRetry, c \in {"sleep 2", "late"}}
    \cup {Timeout(d, Dir("sub", <<Shell("exit 0"), Shell(c), Echo("hello")>>)) :
            d \in Durations, c \in {"sleep 2", "exit 1"}}
    \cup {Dir("sub", <<Shell(c), Echo("hello")>>) : c \in {"exit 0", "exit 1", "noent"}}
    \cup {Dir("sub", <<Timeout(d, Dir("deep", <<Shell("sleep 2")>>)), Echo("hello")>>) :
            d \in Durations}
    \cup {Dir(p, <<Dir(q, <<Echo("hello")>>), Echo("bye")>>) :
            p \in {"sub", "/srv"}, q \in {"deep", "/srv"}}

ListPool ==
  {Shell("exit 0"), Shell("exit 1"), Shell("noent"), Echo("hello"),
   Timeout(5, Shell("sleep 2"))}

RECURSIVE ListsOf(_, _)
ListsOf(pool, n) ==
  IF n = 0 THEN {<<>>}
  ELSE {Append(l, s) : l \in ListsOf(pool, n - 1), s \in pool}

StashLists ==
  {<<Unstash("build")>>,
   <<Stash("build"), Unstash("build"), Echo("hello")>>,
   <<Stash("build"), Unstash("other"), Echo("hello")>>,
   <<Stash("build"), Unstash("build"), Unstash("build")>>,
   <<StashFiles("build", {"a.txt"}), StashFiles("build", {"b.txt"}), Unstash("build")>>,
   <<StashFiles("build", {"a.txt"}), StashFiles("build", {"a.txt", "b.txt"}),
     Unstash("build")>>,
   <<Dir("sub", <<StashFiles("build", {"a.txt"})>>), StashFiles("build", {"b.txt"}),
     Unstash("build")>>}

StepLists ==
  {<<s>> : s \in Prims \cup Wrapped \cup Nested}
    \cup StashLists
    \cup UNION {ListsOf(ListPool, n) : n \in 2..MaxSteps}

\* --------------------------------------------------------------- matrices
\* A matrix is [axes |-> <<[name, values]>>, excludes |-> <<rule>>], a rule
\* being a sequence of <<key, value>> pairs.
Axis(name, values) == [name |-> name, values |-> values]

RECURSIVE Concat(_)
Concat(seqs) ==
  IF seqs = <<>> THEN <<>> ELSE Head(seqs) \o Concat(Tail(seqs))

\* src/pipeline/mod.rs: a combination is the sequence of (axis, value) pairs.
RECURSIVE combinations_upto(_, _)
combinations_upto(axes, n) ==
  IF n = 0 THEN << <<>> >>
  ELSE LET combos == combinations_upto(axes, n - 1)
           axis == axes[n]
       IN Concat([c \in DOMAIN combos |->
                    [v \in DOMAIN axis.values |->
                       Append(combos[c], <<axis.name, axis.values[v]>>)]])

Excluded(combo, rule) ==
  \A i \in DOMAIN rule : \E j \in DOMAIN combo : combo[j] = rule[i]

RECURSIVE Filter(_, _)
Filter(seq, excludes) ==
  IF seq = <<>> THEN <<>>
  ELSE IF \E x \in DOMAIN excludes : Excluded(Head(seq), excludes[x])
    THEN Filter(Tail(seq), excludes)
    ELSE <<Head(seq)>> \o Filter(Tail(seq), excludes)

generate_combinations(matrix) ==
  IF matrix.axes = <<>> THEN <<>>
  ELSE Filter(combinations_upto(matrix.axes, Len(matrix.axes)), matrix.excludes)

\* crates/pipeliner-core/src/matrix.rs: a combination is a map from axis
\* name to value, built in `current` by insert and remove.
Insert(map, key, value) ==
  [x \in DOMAIN map \cup {key} |-> IF x = key THEN value ELSE map[x]]

Remove(map, key) == [x \in DOMAIN map \ {key} |-> map[x]]

\* An exclusion that matched on any one of its pairs would exclude more.
find_exclusion_any_pair(matrix, combo) ==
  \E x \in DOMAIN matrix.excludes :
    \E i \in DOMAIN matrix.excludes[x] :
      LET key == matrix.excludes[x][i][1]
      IN key \in DOMAIN combo /\ combo[key] = matrix.excludes[x][i][2]

find_exclusion(matrix, combo) ==
  \E x \in DOMAIN matrix.excludes :
    \A i \in DOMAIN matrix.excludes[x] :
      LET key == matrix.excludes[x][i][1]
      IN key \in DOMAIN combo /\ combo[key] = matrix.excludes[x][i][2]

\* Returns [results, current] after the loop over axes[index].values from
\* value number v on.
RECURSIVE cartesian_product(_, _, _, _, _)
cartesian_product(matrix, index, v, current, results) ==
  IF index > Len(matrix.axes)
    THEN [results |-> IF find_exclusion(matrix, current) THEN results
                      ELSE Append(results, current),
          current |-> current]
  ELSE IF v > Len(matrix.axes[index].values)
    THEN [results |-> results, current |-> current]
  ELSE LET name == matrix.axes[index].name
           inner == cartesian_product(matrix, index + 1, 1,
                      Insert(current, name, matrix.axes[index].values[v]), results)
       IN \* The recursive call has returned before the loop goes on (results
          \* only grows, so the first branch is never taken).
          IF Len(inner.results) < Len(results)
            THEN inner
            ELSE cartesian_product(matrix, index, v + 1, Remove(inner.current, name),
                                   inner.results)

generate_cells(matrix) ==
  LET combos == IF matrix.axes = <<>> THEN <<>>
                ELSE cartesian_product(matrix, 1, 1, <<>>, <<>>).results
  IN [i \in DOMAIN combos |-> [index |-> i - 1, values |-> combos[i]]]

\* -------------------------------------------- stages and post-conditions
Post(cond, steps) == [cond |-> cond, steps |-> steps]

Branch(name, steps) == [name |-> name, steps |-> steps]

\* matrix is <<>> (None) or <<m>>; when is <<>> (None) or <<condition>>.
Stage(steps, parallel, matrix, post) ==
  [steps |-> steps, parallel |-> parallel, matrix |-> matrix, post |-> post,
   when |-> <<>>]

\* WhenCondition::environment(name, value).
Environment(name, value) == [kind |-> "Environment", name |-> name, value |-> value]

\* Stage::with_when.
with_when(stage, condition) == [stage EXCEPT !.when = <<condition>>]

\* The environment of a run: pipeline.environment.vars, empty in every pipeline
\* below.
PipelineEnv == [n \in {} |-> ""]

\* What a when-condition asks for: the variable is set to the value.  No
\* executor evaluates it.
when_holds(stage, env) ==
  \/ stage.when = <<>>
  \/ /\ stage.when[1].name \in DOMAIN env
     /\ env[stage.when[1].name] = stage.when[1].value

\* PostCondition::should_execute with previous = None.
should_execute(cond, result) ==
  CASE cond = "Always"   -> TRUE
    [] cond = "Success"  -> result = "Success"
    [] cond = "Failure"  -> result = "Failure"
    [] cond = "Unstable" -> result = "Unstable" \/ result = "Failure"
    [] cond = "Changed"  -> TRUE
    [] OTHER             -> FALSE

\* Where the executions of a stage's parts are logged.
StepsPath(s) == <<s, 1>>
PostPath(s, p) == <<s, 2, p>>
BranchPath(s, b) == <<s, 3, b>>

\* LocalExecutor::execute_stage, the loop over stage.post from post p on.
RECURSIVE execute_post_from(_, _, _, _, _)
execute_post_from(posts, p, result, c, s) ==
  IF p > Len(posts) THEN Ok(result, c)
  ELSE IF should_execute(posts[p].cond, result)
    THEN LET r == LocalExecutor_execute_steps(posts[p].steps, c, PostPath(s, p))
         IN IF r.k = "ok" THEN execute_post_from(posts, p + 1, result, r.ctx, s)
            ELSE r
    ELSE execute_post_from(posts, p + 1, result, c, s)

\* LocalExecutor::execute_stage from "Execute steps" on: the stage's own
\* steps, then its post-conditions; every `?` returns the error at once.
execute_steps_and_post(stage, c, s) ==
  LET r == LocalExecutor_execute_steps(stage.steps, c, StepsPath(s))
  IN IF r.k = "ok" THEN execute_post_from(stage.post, 1, r.v, r.ctx, s)
     ELSE r

\* The branches execute_stage builds for a matrix stage: for every pair of
\* the combination an export step is inserted at the front of the steps.
RECURSIVE with_exports(_, _)
with_exports(steps, n) ==
  IF n = 0 THEN steps ELSE <<Shell("export")>> \o with_exports(steps, n - 1)

matrix_branches(stage) ==
  LET combos == generate_combinations(stage.matrix[1])
  IN [c \in DOMAIN combos |-> Branch(combos[c], with_exports(stage.steps, Len(combos[c])))]


\* ---------------------------------------------------------------- state
VARIABLES
  engine,          \* "runtime": StepExecutor and the strategies; "local": LocalExecutor
  body,            \* SpecStep: the step list under execution
  via,             \* SpecStep: the function that ran body
  ret,             \* SpecStep: its result, NoResult before it returns
  ctx,             \* the execution context of the main task, and the world
  pipeline,        \* [stages, post, retry, matrix]
  strategy,        \* "sequential", "parallel", "matrix" (runtime) or "local"
  max_concurrent,  \* ParallelStrategy::max_concurrent
  pc,              \* where the orchestrator stands
  caller,          \* who awaits SequentialStrategy::execute: "top" or "matrix"
  stage_idx,       \* the stage the loop over pipeline.stages is at
  stages_executed,
  steps_executed,
  stage_results,   \* PipelineContext::stage_results, by stage
  result,          \* what the run returned, NoRun before it returns
  threads,         \* the spawned branch threads / stage tasks
  results,         \* what the branch threads pushed, in push order
  permits,         \* free permits of ParallelStrategy's semaphore
  join,            \* ParallelStrategy: [idx, has_failure, failure_reason]
  cells,           \* MatrixStrategy: the generated cells
  cell_idx,
  cells_executed,
  cells_failed,
  tasks,           \* SpecLock: the tasks that use the locks, [op, name, pc]
  locks,           \* SpecLock: who holds the stash-map and the listener mutex
  listener,        \* SpecLock: what EventEmitter::listener holds
  events,          \* the events handed to the listener's on_event, in order
  pending,         \* JobQueueInner::pending, the entries in the heap
  processing,      \* JobQueueInner::processing, job by key
  completed,       \* JobQueueInner::completed, job by key
  cancelled,       \* JobQueueInner::cancelled, job by key
  next_id,         \* the next Uuid::new_v4()
  now,             \* Utc::now()
  config,          \* the WorkerConfig of the pool and its workers
  enqueued,        \* the job each call of JobQueue::enqueue was passed, by id
  submitted,       \* the ids of the jobs the client submitted
  requeued,        \* how often execute_job enqueued a job for a retry
  taken,           \* what a caller of JobQueue::dequeue holds, and what became of it
  workers,         \* WorkerPool::workers: the spawned Worker::run tasks
  sched            \* where Scheduler::run stands

stepVars == <<body, via, ret>>
cfgVars == <<engine, pipeline, strategy, max_concurrent>>
loopVars == <<stage_idx, stages_executed, steps_executed, stage_results>>
parVars == <<threads, results, permits, join>>
lockVars == <<tasks, locks, listener, events>>
matVars == <<caller, cells, cell_idx, cells_executed, cells_failed>>
queueVars == <<pending, processing, completed, cancelled, next_id, now, enqueued>>
workerVars == <<config, submitted, requeued, taken, workers, sched>>
poolVars == <<queueVars, workerVars>>
vars == <<stepVars, cfgVars, lockVars, loopVars, parVars, matVars, poolVars, ctx, pc, result>>

NoResult == [k |-> "none", v |-> ""]
Returned(r) == [k |-> r.k, v |-> r.v]

\* ------------------------------------------- running one list of steps
NoRun ==
  [k |-> "none", status |-> "", stages_executed |-> 0, steps_executed |-> 0,
   error |-> ""]

NoPipeline == [stages |-> <<>>, post |-> <<>>, retry |-> <<>>, matrix |-> <<>>]

NoJoin == [idx |-> 1, has_failure |-> FALSE, failure_reason |-> <<>>]

NoLocks == [stashes |-> 0, listener |-> 0]

NoTaken == [state |-> "none"]

\* No job queue, no worker pool and no scheduler in use.
NoPool ==
  /\ pending = {} /\ processing = <<>> /\ completed = <<>> /\ cancelled = <<>>
  /\ next_id = 1 /\ now = 0 /\ enqueued = <<>>
  /\ config = [max_concurrent |-> 0]
  /\ submitted = {} /\ requeued = 0 /\ taken = NoTaken
  /\ workers = <<>> /\ sched = [pc |-> "none", available |-> 0]

\* What a run starts from, whatever it runs.
Fresh ==
  /\ NoPool
  /\ tasks = <<>>
  /\ locks = NoLocks
  /\ listener = "None"
  /\ events = <<>>
  /\ ret = NoResult
  /\ via = ""
  /\ ctx = NewContext
  /\ caller = "top"
  /\ stage_idx = 1
  /\ stages_executed = 0
  /\ steps_executed = 0
  /\ stage_results = <<>>
  /\ result = NoRun
  /\ threads = <<>>
  /\ results = <<>>
  /\ join = NoJoin
  /\ cells = <<>>
  /\ cell_idx = 1
  /\ cells_executed = 0
  /\ cells_failed = 0

StepInit ==
  /\ engine \in {"runtime", "local"}
  /\ body \in StepLists
  /\ pipeline = NoPipeline
  /\ strategy = "none"
  /\ max_concurrent = 0
  /\ permits = 0
  /\ pc = "steps"
  /\ Fresh

\* StepExecutor::execute_steps on body (as for a Dir body).
RunExecuteSteps ==
  /\ engine = "runtime" /\ ret = NoResult
  /\ LET r == execute_steps(body, ctx, <<>>, <<>>)
     IN ret' = Returned(r) /\ ctx' = r.ctx
  /\ via' = "execute_steps"
  /\ UNCHANGED <<body, cfgVars, lockVars, poolVars, loopVars, parVars, matVars, pc, result>>

\* strategy.rs execute_stage on body (as for a stage's steps).
RunExecuteStage ==
  /\ engine = "runtime" /\ ret = NoResult
  /\ LET r == execute_stage(body, ctx, <<>>)
     IN ret' = Returned(r) /\ ctx' = r.ctx
  /\ via' = "execute_stage"
  /\ UNCHANGED <<body, cfgVars, lockVars, poolVars, loopVars, parVars, matVars, pc, result>>

\* LocalExecutor::execute_steps on body (a stage's steps, a post body).
RunLocalExecuteSteps ==
  /\ engine = "local" /\ ret = NoResult
  /\ LET r == LocalExecutor_execute_steps(body, ctx, <<>>)
     IN ret' = Returned(r) /\ ctx' = r.ctx
  /\ via' = "LocalExecutor::execute_steps"
  /\ UNCHANGED <<body, cfgVars, lockVars, poolVars, loopVars, parVars, matVars, pc, result>>

StepNext == RunExecuteSteps \/ RunExecuteStage \/ RunLocalExecuteSteps

SpecStep == StepInit /\ [][StepNext]_vars


\* ======================================================= running a pipeline
MaxStages == 3
MaxConcurrent == 2

ExecutionResult_success(stages, steps) ==
  [k |-> "ok", status |-> "Success", stages_executed |-> stages,
   steps_executed |-> steps, error |-> ""]

ExecutionResult_failure(stages, steps, error) ==
  [k |-> "ok", status |-> "Failure", stages_executed |-> stages,
   steps_executed |-> steps, error |-> error]

\* What LocalExecutor::execute returns: Ok(StageResult) or Err(PipelineError).
LocalReturn(r) ==
  [k |-> r.k, status |-> IF r.k = "ok" THEN r.v ELSE "", stages_executed |-> 0,
   steps_executed |-> 0, error |-> IF r.k = "ok" THEN "" ELSE r.v]

\* A spawned thread or task: its own copy of the context; the log and the
\* stash map are not copied, they stay with ctx.
Thread(stage, name, steps, c) ==
  [stage |-> stage, name |-> name, steps |-> steps, next |-> 1, state |-> "running",
   res |-> NoResult, local |-> [c EXCEPT !.log = <<>>, !.stashes = NoStashes]]

\* The context a task works on: the fields of its clone, and behind the
\* cloned Arc the stash map of the context it was cloned from.
clone_own_stashes(local, parent) == [local EXCEPT !.log = parent.log, !.fs = parent.fs]

clone(local, parent) ==
  [local EXCEPT !.log = parent.log, !.fs = parent.fs, !.stashes = parent.stashes]

\* What the context of the spawning task is after a task has run on its
\* clone: only what lies behind an Arc has changed.
after_task_shared(parent, c) == c

after_task(parent, c) ==
  [parent EXCEPT !.log = c.log, !.fs = c.fs, !.stashes = c.stashes]

Max(a, b) == IF a >= b THEN a ELSE b

RECURSIVE LatestClock(_, _)
LatestClock(ths, t) ==
  IF ths = <<>> THEN t ELSE LatestClock(Tail(ths), Max(t, Head(ths).local.clock))

\* ------------------------------ SequentialStrategy::execute (strategy.rs)
\* `return Ok(res)`: to the caller of the run, or to MatrixStrategy's match.
SeqReturns(res, c) ==
  /\ ctx' = c
  /\ IF caller = "matrix"
       THEN /\ cells_executed' = IF res.k = "ok" THEN cells_executed + 1 ELSE cells_executed
            /\ cells_failed' = IF res.k = "ok" THEN cells_failed ELSE cells_failed + 1
            /\ cell_idx' = cell_idx + 1
            /\ pc' = "matrix"
            /\ UNCHANGED result
       ELSE /\ result' = res
            /\ pc' = "done"
            /\ UNCHANGED <<cells_executed, cells_failed, cell_idx>>
  /\ UNCHANGED <<stepVars, cfgVars, lockVars, poolVars, parVars, caller, cells, stage_results>>

\* The arms of `match result` that let the loop go on to the next stage.
stage_passes_any(r) == TRUE

stage_passes(r) == r.k = "ok" /\ r.v \in {"Success", "Unstable"}

\* One turn of `for stage in &pipeline.stages`.
SeqStage ==
  /\ pc = "seq"
  /\ stage_idx <= Len(pipeline.stages)
  /\ LET stage == pipeline.stages[stage_idx]
         r == execute_stage(stage.steps, ctx, StepsPath(stage_idx))
         n == stages_executed + 1
         m == steps_executed + Len(stage.steps)
     IN /\ stages_executed' = n
        /\ steps_executed' = m
        /\ IF stage_passes(r)
             THEN /\ stage_idx' = stage_idx + 1
                  /\ ctx' = r.ctx
                  /\ UNCHANGED <<stepVars, cfgVars, lockVars, poolVars, parVars, matVars, stage_results,
                                 pc, result>>
             ELSE /\ SeqReturns(ExecutionResult_failure(n, m, r.v), r.ctx)
                  /\ UNCHANGED stage_idx

SeqFinish ==
  /\ pc = "seq"
  /\ stage_idx > Len(pipeline.stages)
  /\ SeqReturns(ExecutionResult_success(stages_executed, steps_executed), ctx)
  /\ UNCHANGED <<stage_idx, stages_executed, steps_executed>>

\* ---------------------------------- MatrixStrategy::execute (strategy.rs)
MatrixStart ==
  /\ pc = "matrix_start"
  /\ IF pipeline.matrix = <<>>
       THEN pc' = "seq" /\ UNCHANGED cells
       ELSE pc' = "matrix" /\ cells' = generate_cells(pipeline.matrix[1])
  /\ UNCHANGED <<stepVars, cfgVars, lockVars, poolVars, loopVars, parVars, caller, cell_idx,
                 cells_executed, cells_failed, ctx, result>>

RECURSIVE set_parameters(_, _)
set_parameters(params, values) ==
  IF DOMAIN values = {} THEN params
  ELSE LET key == CHOOSE x \in DOMAIN values : TRUE
       IN set_parameters(Insert(params, key, values[key]), Remove(values, key))

\* One turn of `for cell in &cells`, up to the call of the sub-run.
MatrixCell ==
  /\ pc = "matrix"
  /\ cell_idx <= Len(cells)
  /\ ctx' = [ctx EXCEPT !.parameters = set_parameters(@, cells[cell_idx].values)]
  /\ caller' = "matrix"
  /\ pc' = "seq"
  /\ stage_idx' = 1
  /\ stages_executed' = 0
  /\ steps_executed' = 0
  /\ UNCHANGED <<stepVars, cfgVars, lockVars, poolVars, parVars, cells, cell_idx, cells_executed,
                 cells_failed, stage_results, result>>

MatrixFinish ==
  /\ pc = "matrix"
  /\ cell_idx > Len(cells)
  /\ result' = IF cells_failed > 0
                 THEN ExecutionResult_failure(cells_executed, cells_failed,
                                              "matrix cells failed")
                 ELSE ExecutionResult_success(cells_executed, cells_failed)
  /\ pc' = "done"
  /\ UNCHANGED <<stepVars, cfgVars, lockVars, poolVars, loopVars, parVars, matVars, ctx>>

\* -------------------------------- ParallelStrategy::execute (strategy.rs)
\* One turn of the spawning loop: acquire a permit, clone, spawn.
\* A semaphore that always granted a permit would bound nothing.
acquire_owned_unbounded(available) == TRUE

\* `semaphore.clone().acquire_owned().await` completes when a permit is
\* available.
acquire_owned(available) == available > 0

ParSpawn ==
  /\ pc = "par"
  /\ stage_idx <= Len(pipeline.stages)
  /\ acquire_owned(permits)
  /\ permits' = permits - 1
  /\ threads' = Append(threads, Thread(stage_idx, stage_idx, pipeline.stages[stage_idx].steps, ctx))
  /\ stage_idx' = stage_idx + 1
  /\ UNCHANGED <<stepVars, cfgVars, lockVars, poolVars, matVars, stages_executed, steps_executed,
                 stage_results, results, join, ctx, pc, result>>

\* A spawned task runs execute_stage on its clone and drops its permit.
ParTask(t) ==
  /\ pc = "par"
  /\ threads[t].state = "running"
  /\ LET r == execute_stage(threads[t].steps, clone(threads[t].local, ctx),
                            StepsPath(threads[t].name))
     IN /\ threads' = [threads EXCEPT ![t].state = "done", ![t].res = Returned(r),
                                      ![t].local = [r.ctx EXCEPT !.log = <<>>,
                                                                 !.stashes = NoStashes]]
        /\ ctx' = [after_task(ctx, r.ctx) EXCEPT !.clock = Max(@, r.ctx.clock)]
  /\ permits' = permits + 1
  /\ UNCHANGED <<stepVars, cfgVars, lockVars, poolVars, loopVars, matVars, results, join, pc, result>>

\* One turn of `for handle in handles`: handle.await and the match on it.
ParJoin ==
  /\ pc = "par"
  /\ stage_idx > Len(pipeline.stages)
  /\ join.idx <= Len(threads)
  /\ threads[join.idx].state = "done"
  /\ LET r == threads[join.idx].res
     IN IF r.k = "ok"
          THEN /\ stages_executed' = stages_executed + 1
               /\ join' = [join EXCEPT !.idx = @ + 1,
                             !.has_failure = @ \/ r.v \notin {"Success", "Unstable"}]
          ELSE /\ join' = [join EXCEPT !.idx = @ + 1, !.has_failure = TRUE,
                                       !.failure_reason = <<r.v>>]
               /\ UNCHANGED stages_executed
  /\ UNCHANGED <<stepVars, cfgVars, lockVars, poolVars, matVars, stage_idx, steps_executed,
                 stage_results, threads, results, permits, ctx, pc, result>>

RECURSIVE CountSteps(_)
CountSteps(stages) ==
  IF stages = <<>> THEN 0 ELSE Len(Head(stages).steps) + CountSteps(Tail(stages))

ParFinish ==
  /\ pc = "par"
  /\ stage_idx > Len(pipeline.stages)
  /\ join.idx > Len(threads)
  /\ steps_executed' = steps_executed + CountSteps(pipeline.stages)
  /\ result' = IF join.has_failure
                 THEN ExecutionResult_failure(stages_executed, steps_executed',
                        IF join.failure_reason # <<>> THEN join.failure_reason[1]
                        ELSE "One or more stages failed")
                 ELSE ExecutionResult_success(stages_executed, steps_executed')
  /\ pc' = "done"
  /\ UNCHANGED <<stepVars, cfgVars, lockVars, poolVars, parVars, matVars, stage_idx, stages_executed,
                 stage_results, ctx>>


\* ------------------------------------- LocalExecutor (src/executor/local.rs)
\* What execute does with the value of `self.execute_stage(stage, &context)`:
\* `?` returns an error at once; a result is recorded, and a Failure without
\* pipeline retry returns too.
LocalStageReturns(r) ==
  /\ ctx' = r.ctx
  /\ IF r.k # "ok"
       THEN /\ result' = LocalReturn(r)
            /\ pc' = "done"
            /\ UNCHANGED <<stage_idx, stage_results>>
       ELSE /\ stage_results' = Insert(stage_results, stage_idx, r.v)
            /\ IF r.v = "Failure" /\ pipeline.retry = <<>>
                 THEN result' = LocalReturn(r) /\ pc' = "done" /\ UNCHANGED stage_idx
                 ELSE stage_idx' = stage_idx + 1 /\ pc' = "stage" /\ UNCHANGED result
  /\ UNCHANGED <<stepVars, cfgVars, lockVars, poolVars, matVars, stages_executed, steps_executed, permits,
                 join>>

\* execute_stage of a stage with neither matrix nor parallel branches.
LocalStagePlain ==
  /\ pc = "stage"
  /\ stage_idx <= Len(pipeline.stages)
  /\ LET stage == pipeline.stages[stage_idx]
     IN /\ stage.matrix = <<>> /\ stage.parallel = <<>>
        /\ LocalStageReturns(execute_steps_and_post(stage, ctx, stage_idx))
  /\ UNCHANGED <<threads, results>>

\* execute_parallel_branches up to the joins: one thread per branch, for the
\* cells of the stage's matrix if it has one, else for its parallel branches.
LocalStageSpawn ==
  /\ pc = "stage"
  /\ stage_idx <= Len(pipeline.stages)
  /\ LET stage == pipeline.stages[stage_idx]
         branches == IF stage.matrix # <<>> THEN matrix_branches(stage)
                     ELSE stage.parallel
     IN /\ stage.matrix # <<>> \/ stage.parallel # <<>>
        /\ threads' = [b \in DOMAIN branches |-> Thread(stage_idx, b, branches[b].steps, ctx)]
  /\ results' = <<>>
  /\ pc' = "join"
  /\ UNCHANGED <<stepVars, cfgVars, lockVars, poolVars, loopVars, matVars, permits, join, ctx, result>>

\* A branch thread pushes its result under the lock and ends.
Pushed(b, r) ==
  /\ threads' = [threads EXCEPT ![b].state = "done", ![b].res = Returned(r),
                                ![b].local = [r.ctx EXCEPT !.log = <<>>]]
  /\ results' = Append(results, [branch |-> b, res |-> Returned(r)])

\* One step of execute_steps_static in branch thread b.
LocalBranchStep(b) ==
  /\ pc = "join"
  /\ threads[b].state = "running"
  /\ threads[b].next <= Len(threads[b].steps)
  /\ LET th == threads[b]
         r == LocalExecutor_execute_step_static(th.steps[th.next],
                [th.local EXCEPT !.log = ctx.log],
                Append(BranchPath(stage_idx, b), th.next))
     IN /\ ctx' = [ctx EXCEPT !.log = r.ctx.log]
        /\ IF r.k = "ok"
             THEN /\ threads' = [threads EXCEPT ![b].next = @ + 1,
                                   ![b].local = [r.ctx EXCEPT !.log = <<>>]]
                  /\ UNCHANGED results
             ELSE Pushed(b, r)
  /\ UNCHANGED <<stepVars, cfgVars, lockVars, poolVars, loopVars, matVars, permits, join, pc, result>>

\* execute_stage_static returns Ok(Success) after the last step.
LocalBranchReturn(b) ==
  /\ pc = "join"
  /\ threads[b].state = "running"
  /\ threads[b].next > Len(threads[b].steps)
  /\ Pushed(b, Ok("Success", threads[b].local))
  /\ UNCHANGED <<stepVars, cfgVars, lockVars, poolVars, loopVars, matVars, permits, join, pc, result, ctx>>

\* `for handle in handles { handle.join().unwrap(); }` has returned.
joined_until_error(ths) ==
  \/ \A b \in DOMAIN ths : ths[b].state = "done"
  \/ \E b \in DOMAIN ths : ths[b].state = "done" /\ ths[b].res.k # "ok"

some_joined(ths) == \E b \in DOMAIN ths : ths[b].state = "done"

all_joined(ths) == \A b \in DOMAIN ths : ths[b].state = "done"

first_error_none(rs) == <<>>

RECURSIVE first_error(_)
first_error(rs) ==
  IF rs = <<>> THEN <<>>
  ELSE IF Head(rs).res.k # "ok" THEN <<Head(rs).res>> ELSE first_error(Tail(rs))

\* execute_parallel_branches once every handle is joined, and the rest of
\* execute_stage: a matrix stage returns what the branches gave; a parallel
\* stage goes on to its own steps and post-conditions unless a branch erred.
LocalStageJoin ==
  /\ pc = "join"
  /\ all_joined(threads)
  /\ LET stage == pipeline.stages[stage_idx]
         c == [ctx EXCEPT !.clock = LatestClock(threads, @)]
         err == first_error(results)
     IN IF err # <<>>
          THEN LocalStageReturns([k |-> err[1].k, v |-> err[1].v, ctx |-> c])
          ELSE IF stage.matrix # <<>>
            THEN LocalStageReturns(Ok("Success", c))
            ELSE LocalStageReturns(execute_steps_and_post(stage, c, stage_idx))
  /\ UNCHANGED <<threads, results>>

\* execute after the loop over the stages: the pipeline's post-conditions
\* against values().last() of the stage_results map, then Ok(Success).
LocalPipelinePost ==
  /\ pc = "stage"
  /\ stage_idx > Len(pipeline.stages)
  /\ \E last \in {stage_results[x] : x \in DOMAIN stage_results} \cup
                 (IF stage_results = <<>> THEN {"None"} ELSE {}) :
       LET r == IF last = "None" THEN Ok("Success", ctx)
                ELSE execute_post_from(pipeline.post, 1, last, ctx, 0)
       IN /\ ctx' = r.ctx
          /\ result' = LocalReturn(IF r.k = "ok" THEN Ok("Success", r.ctx) ELSE r)
  /\ pc' = "done"
  /\ UNCHANGED <<stepVars, cfgVars, lockVars, poolVars, loopVars, parVars, matVars>>


\* ------------------------------------------- Executor::run (lib.rs)
\* The body of run is `todo!()`: the call panics.
ExecutorRun ==
  /\ pc = "run"
  /\ result' = [NoRun EXCEPT !.k = "panic", !.error = "not yet implemented"]
  /\ pc' = "done"
  /\ UNCHANGED <<stepVars, cfgVars, lockVars, poolVars, loopVars, parVars, matVars, ctx>>

\* ------------------------------------------------------------ the pipelines
PostEchoes ==
  <<Post("Always", <<Echo("always")>>), Post("Success", <<Echo("success")>>),
    Post("Failure", <<Echo("failure")>>)>>

OsMatrix ==
  [axes |-> <<Axis("os", <<"linux", "macos">>)>>, excludes |-> <<>>]

\* The stages the strategies of pipeliner-executor are run on.
RuntimeStages ==
  {Stage(<<Shell("exit 0"), Stash("build")>>, <<>>, <<>>, PostEchoes),
   Stage(<<Shell("exit 1"), Echo("hello")>>, <<>>, <<>>, PostEchoes),
   Stage(<<Shell("exit 0"), Timeout(5, Dir("sub", <<Shell("sleep 2")>>)), Echo("hello")>>,
         <<>>, <<>>, <<>>),
   Stage(<<Shell("noent")>>, <<>>, <<>>, <<>>),
   Stage(<<Shell("flaky")>>, <<>>, <<>>, <<>>),
   with_when(Stage(<<Echo("deploy")>>, <<>>, <<>>, <<>>), Environment("DEPLOY", "true")),
   Stage(<<Unstash("build"), Echo("hello")>>, <<>>, <<>>, <<>>)}

\* The stages LocalExecutor is run on.
LocalStages ==
  {Stage(<<Shell("exit 0")>>, <<>>, <<>>, PostEchoes),
   Stage(<<Shell("exit 1"), Echo("hello")>>, <<>>, <<>>, PostEchoes),
   Stage(<<Echo("hello")>>, <<>>, <<>>, <<Post("Always", <<Shell("exit 1")>>)>>),
   Stage(<<>>, <<Branch("a", <<Echo("a"), Shell("exit 1")>>), Branch("b", <<Echo("b")>>)>>,
         <<>>, PostEchoes),
   Stage(<<Shell("exit 1")>>,
         <<Branch("a", <<Echo("a")>>), Branch("b", <<Retry(1, Shell("exit 1"))>>)>>,
         <<>>, <<>>),
   Stage(<<Echo("hello")>>, <<Branch("a", <<Echo("a")>>), Branch("b", <<Shell("sleep 2")>>)>>,
         <<>>, PostEchoes),
   Stage(<<Shell("flaky")>>, <<>>, <<OsMatrix>>, PostEchoes),
   with_when(Stage(<<Echo("deploy")>>, <<>>, <<>>, PostEchoes),
             Environment("DEPLOY", "true"))}

\* pipeline.post, pipeline.options.retry and pipeline.matrix.
Settings ==
  {[post |-> <<>>, retry |-> <<>>, matrix |-> <<>>],
   [post |-> <<Post("Always", <<Echo("bye")>>)>>, retry |-> <<>>, matrix |-> <<>>],
   [post |-> <<Post("Always", <<Shell("exit 1")>>)>>, retry |-> <<>>, matrix |-> <<>>],
   [post |-> <<>>, retry |-> <<1>>, matrix |-> <<>>],
   [post |-> <<>>, retry |-> <<>>, matrix |-> <<OsMatrix>>]}

Pipelines(pool) ==
  {[stages |-> l, post |-> o.post, retry |-> o.retry, matrix |-> o.matrix] :
     l \in UNION {ListsOf(pool, n) : n \in 1..MaxStages}, o \in Settings}

Init ==
  /\ engine \in {"runtime", "local"}
  /\ body = <<>>
  /\ strategy \in IF engine = "local" THEN {"local"}
                  ELSE {"sequential", "parallel", "matrix", "executor"}
  /\ pipeline \in IF engine = "local"
                    THEN {p \in Pipelines(LocalStages) : p.matrix = <<>>}
                    ELSE {p \in Pipelines(RuntimeStages) :
                            /\ p.post = <<>>
                            /\ p.matrix # <<>> => strategy = "matrix"}
  /\ max_concurrent \in IF strategy = "parallel" THEN 0..MaxConcurrent ELSE {0}
  /\ permits = max_concurrent
  /\ pc = CASE strategy = "local"      -> "stage"
            [] strategy = "sequential" -> "seq"
            [] strategy = "parallel"   -> "par"
            [] strategy = "executor"   -> "run"
            [] OTHER                   -> "matrix_start"
  /\ Fresh

Next ==
  \/ SeqStage
  \/ SeqFinish
  \/ MatrixStart
  \/ MatrixCell
  \/ MatrixFinish
  \/ ParSpawn
  \/ \E t \in DOMAIN threads : ParTask(t)
  \/ ParJoin
  \/ ParFinish
  \/ LocalStagePlain
  \/ LocalStageSpawn
  \/ \E b \in DOMAIN threads : LocalBranchStep(b)
  \/ \E b \in DOMAIN threads : LocalBranchReturn(b)
  \/ LocalStageJoin
  \/ LocalPipelinePost
  \/ ExecutorRun

Spec == Init /\ [][Next]_vars


\* ================================================ the locks and their holders
\* Tasks that work on one ExecutionContext and one EventEmitter.  A task is
\* at an await that is pending (suspended), between two awaits, or done.
MaxTasks == 2

\* What EventEmitter::listener holds: nothing, a listener whose on_event
\* returns without awaiting anything (NoopListener, BufferListener), or an
\* implementation of ExecutionListener whose on_event awaits.
Listeners == {"None", "returns", "awaits"}

\* The operations: StepExecutor::execute_stash and ::execute_unstash of a step
\* with the given name, EventEmitter::emit and ::set_listener.
Ops ==
  {[op |-> o, name |-> "build"] : o \in {"stash", "unstash"}}
    \cup {[op |-> "emit", name |-> "PipelineStarted"]}
    \cup {[op |-> "set_listener", name |-> l] : l \in Listeners \ {"None"}}

\* execute_stash starts by awaiting create_dir_all, execute_unstash by
\* awaiting the lock; emit and set_listener start at their lock().
Task(o) ==
  [op |-> o.op, name |-> o.name,
   pc |-> CASE o.op = "stash"   -> "create_dir_all"
            [] o.op = "unstash" -> "lock"
            [] OTHER            -> "start"]

LockInit ==
  /\ engine = "runtime"
  /\ body = <<>>
  /\ pipeline = NoPipeline
  /\ strategy = "none"
  /\ max_concurrent = 0
  /\ permits = 0
  /\ pc = "tasks"
  /\ ret = NoResult /\ via = "" /\ ctx = NewContext /\ result = NoRun
  /\ caller = "top" /\ stage_idx = 1 /\ stages_executed = 0 /\ steps_executed = 0
  /\ stage_results = <<>> /\ threads = <<>> /\ results = <<>> /\ join = NoJoin
  /\ cells = <<>> /\ cell_idx = 1 /\ cells_executed = 0 /\ cells_failed = 0
  /\ tasks \in UNION {[1..n -> {Task(o) : o \in Ops}] : n \in 1..MaxTasks}
  /\ locks = NoLocks
  /\ listener \in Listeners
  /\ events = <<>>
  /\ NoPool

At(t, where) == tasks' = [tasks EXCEPT ![t].pc = where]

runVars == <<stepVars, cfgVars, loopVars, parVars, matVars, poolVars, pc, result>>

\* execute_stash: `tokio::fs::create_dir_all(&stash_path).await?` completes;
\* the task goes on to context.stash and awaits the lock there.
StashDirCreated(t) ==
  /\ tasks[t].pc = "create_dir_all"
  /\ At(t, "lock")
  /\ UNCHANGED <<runVars, ctx, locks, listener, events>>

\* ExecutionContext::stash / ::unstash: `self.stashes.lock().await` is
\* granted.
StashesLock(t) ==
  /\ tasks[t].pc = "lock"
  /\ locks.stashes = 0
  /\ locks' = [locks EXCEPT !.stashes = t]
  /\ At(t, "locked")
  /\ UNCHANGED <<runVars, ctx, listener, events>>

\* ExecutionContext::stash: insert, and the guard is dropped at the return;
\* execute_stash returns Ok(Success).
StashInsert(t) ==
  /\ tasks[t].op = "stash" /\ tasks[t].pc = "locked"
  /\ ctx' = stash(ctx, tasks[t].name, ctx.working_dir)
  /\ locks' = [locks EXCEPT !.stashes = 0]
  /\ At(t, "done")
  /\ UNCHANGED <<runVars, listener, events>>

\* ExecutionContext::unstash: remove, and the guard is dropped at the
\* return; execute_unstash then awaits copy_all if there was a stash, and
\* returns Ok(Failure) if there was none.
UnstashRemove(t) ==
  /\ tasks[t].op = "unstash" /\ tasks[t].pc = "locked"
  /\ ctx' = unstash(ctx, tasks[t].name)
  /\ locks' = [locks EXCEPT !.stashes = 0]
  /\ At(t, IF tasks[t].name \in DOMAIN ctx.stashes THEN "copy_all" ELSE "done")
  /\ UNCHANGED <<runVars, listener, events>>

\* execute_unstash: `self.copy_all(..).await?` completes.
UnstashCopied(t) ==
  /\ tasks[t].pc = "copy_all"
  /\ At(t, "done")
  /\ UNCHANGED <<runVars, ctx, locks, listener, events>>

\* EventEmitter::set_listener: lock, assign, drop the guard.
SetListener(t) ==
  /\ tasks[t].op = "set_listener" /\ tasks[t].pc = "start"
  /\ locks.listener = 0
  /\ listener' = tasks[t].name
  /\ At(t, "done")
  /\ UNCHANGED <<runVars, ctx, locks, events>>

\* EventEmitter::emit: `let guard = self.listener.lock().unwrap()`.
EmitLock(t) ==
  /\ tasks[t].op = "emit" /\ tasks[t].pc = "start"
  /\ locks.listener = 0
  /\ locks' = [locks EXCEPT !.listener = t]
  /\ At(t, "guard")
  /\ UNCHANGED <<runVars, ctx, listener, events>>

\* EventEmitter::emit: `if let Some(listener) = guard.as_ref()` and the first
\* poll of `listener.on_event(&event, context).await`; guard lives to the end
\* of the function.
EmitOnEvent(t) ==
  /\ tasks[t].pc = "guard"
  /\ IF listener = "awaits"
       THEN At(t, "on_event") /\ UNCHANGED locks
       ELSE At(t, "done") /\ locks' = [locks EXCEPT !.listener = 0]
  /\ events' = IF listener = "None" THEN events ELSE Append(events, tasks[t].name)
  /\ UNCHANGED <<runVars, ctx, listener>>

\* The future of on_event completes; emit returns and drops the guard.
EmitReturn(t) ==
  /\ tasks[t].pc = "on_event"
  /\ locks' = [locks EXCEPT !.listener = 0]
  /\ At(t, "done")
  /\ UNCHANGED <<runVars, ctx, listener, events>>

LockNext ==
  \/ \E t \in DOMAIN tasks : StashDirCreated(t)
  \/ \E t \in DOMAIN tasks : StashesLock(t)
  \/ \E t \in DOMAIN tasks : StashInsert(t)
  \/ \E t \in DOMAIN tasks : UnstashRemove(t)
  \/ \E t \in DOMAIN tasks : UnstashCopied(t)
  \/ \E t \in DOMAIN tasks : SetListener(t)
  \/ \E t \in DOMAIN tasks : EmitLock(t)
  \/ \E t \in DOMAIN tasks : EmitOnEvent(t)
  \/ \E t \in DOMAIN tasks : EmitReturn(t)

SpecLock == LockInit /\ [][LockNext]_vars


\* =================================================== claims on single steps
Success(r) == r.k = "ok" /\ r.v \in {"Success", "Unit"}

\* How often the step at the given position was executed.
Attempts(path) ==
  Cardinality({i \in DOMAIN ctx.log : ctx.log[i].path = path})

AlwaysFails(c) == \A k \in 1..(MaxRetry + 2) : Backend(c, k).exit # "ok"

SucceedsBy(c, n) == \E k \in 1..(n + 1) : Backend(c, k).exit = "ok"

FirstSuccess(c) ==
  CHOOSE k \in 1..(MaxRetry + 2) :
    /\ Backend(c, k).exit = "ok"
    /\ \A j \in 1..(k - 1) : Backend(c, j).exit # "ok"

\* C1: a Retry(n, inner) whose inner step fails on every attempt (a shell
\* command that always exits non-zero, or that can never be spawned) executes
\* inner exactly n+1 times and then returns the error RetryExhausted.
C1_RetryExhausted ==
  \A n \in 0..MaxRetry, c \in Commands :
    (ret # NoResult /\ body = <<Retry(n, Shell(c))>> /\ AlwaysFails(c))
      => /\ Attempts(<<1, 1>>) = n + 1
         /\ ret = [k |-> "err", v |-> "RetryExhausted"]

\* C2: a Retry(n, inner) whose inner step first succeeds on attempt
\* k <= n+1 executes inner exactly k times and returns Success.
C2_RetrySucceedsOnAttemptK ==
  \A n \in 0..MaxRetry, c \in Commands :
    (ret # NoResult /\ body = <<Retry(n, Shell(c))>> /\ SucceedsBy(c, n))
      => /\ Attempts(<<1, 1>>) = FirstSuccess(c)
         /\ ret = [k |-> "ok", v |-> "Success"]

\* How long a step runs when nothing cuts it short.
OwnDuration(step) ==
  IF engine = "runtime"
    THEN StepExecutor_execute(step, NewContext, <<>>, <<1, 1>>).ctx.clock
    ELSE LocalExecutor_execute_step(step, NewContext, <<1, 1>>).ctx.clock

\* body is one Timeout(d, inner) step, inner runs longer than d, and the
\* step has returned.
Overran ==
  /\ ret # NoResult
  /\ Len(body) = 1
  /\ body[1].type = "Timeout"
  /\ OwnDuration(body[1].steps[1]) > body[1].duration

RECURSIVE AloneAt(_, _, _, _)
AloneAt(steps, k, start, path) ==
  LET before == IF k = 1 THEN start ELSE AloneAt(steps, k - 1, start, path).ctx
  IN IF engine = "runtime"
       THEN StepExecutor_execute(steps[k], before, <<>>, Append(path, k))
       ELSE LocalExecutor_execute_step(steps[k], before, Append(path, k))

FirstNonSuccess(steps, i, start, path) ==
  /\ ~Success(AloneAt(steps, i, start, path))
  /\ \A j \in 1..(i - 1) : Success(AloneAt(steps, j, start, path))

\* C4: in a step list whose step i is the first to return a non-Success
\* result, steps 1..i are executed, nothing of a later step is, and the list
\* returns step i's result.  Stated for a list run by execute_steps,
\* execute_stage or LocalExecutor::execute_steps, and for the body of a Dir.
C4_StopsAtFirstNonSuccess ==
  /\ \A i \in 1..Len(body) :
       (ret # NoResult /\ FirstNonSuccess(body, i, NewContext, <<>>))
         => /\ ret = Returned(AloneAt(body, i, NewContext, <<>>))
            /\ ctx = AloneAt(body, i, NewContext, <<>>).ctx
            /\ \A e \in DOMAIN ctx.log : ctx.log[e].path[1] <= i
  /\ (ret # NoResult /\ engine = "runtime" /\ Len(body) = 1 /\ body[1].type = "Dir")
       => LET ss == body[1].steps
              start == push_dir(NewContext, body[1].command)
          IN \A i \in 1..Len(ss) :
               FirstNonSuccess(ss, i, start, <<1>>)
                 => /\ ret = Returned(AloneAt(ss, i, start, <<1>>))
                    /\ ctx.log = AloneAt(ss, i, start, <<1>>).ctx.log
                    /\ \A e \in DOMAIN ctx.log : ctx.log[e].path[2] <= i

C4_Witness ==
  /\ ret # NoResult
  /\ via = "execute_stage"
  /\ Len(body) = 3
  /\ body[3] = Echo("hello")
  /\ FirstNonSuccess(body, 2, NewContext, <<>>)
  /\ \A e \in DOMAIN ctx.log : ctx.log[e].path[1] # 3


\* ====================================================== claims on pipelines
\* The log entry at position i reports a failed execution: the command's
\* invocation, the k-th of that command, did not exit with 0.
\* The names stashed and not taken out again by the first i entries of the
\* log.
RECURSIVE StashesAfter(_)
StashesAfter(i) ==
  IF i = 0 THEN {}
  ELSE LET e == ctx.log[i]
       IN CASE e.op = "stash"   -> StashesAfter(i - 1) \cup {e.what}
            [] e.op = "unstash" -> StashesAfter(i - 1) \ {e.what}
            [] OTHER            -> StashesAfter(i - 1)

FailedAt(i) ==
  LET k == Cardinality({j \in 1..i : ctx.log[j].what = ctx.log[i].what})
  IN IF ctx.log[i].op = "unstash" THEN ctx.log[i].what \notin StashesAfter(i - 1)
     ELSE Backend(ctx.log[i].what, k).exit # "ok"

\* The positions of the log that belong to part `part` (1 the own steps, 2
\* the post-conditions, 3 the branches) of stage s.
EntriesOf(s, part) ==
  {i \in DOMAIN ctx.log : ctx.log[i].path[1] = s /\ ctx.log[i].path[2] = part}

Failing(status) == status \in {"Failure", "Timeout", "Aborted"}

\* The first stage of stages[i..] whose result does not let a sequential run
\* go on, 0 if there is none, and the context the run ends in.
RECURSIVE SequentialOutcome(_, _, _)
SequentialOutcome(stages, i, c) ==
  IF i > Len(stages) THEN [first |-> 0, ctx |-> c]
  ELSE LET r == execute_stage(stages[i].steps, c, StepsPath(i))
       IN IF r.k = "ok" /\ ~Failing(r.v)
            THEN SequentialOutcome(stages, i + 1, r.ctx)
            ELSE [first |-> i, ctx |-> r.ctx]

FirstFailing == SequentialOutcome(pipeline.stages, 1, NewContext).first

\* A whole-pipeline sequential run has returned.
SequentialRunDone ==
  /\ pc = "done"
  /\ strategy \in {"sequential", "matrix"}
  /\ pipeline.matrix = <<>>

\* C5: without pipeline-level retry, if stage i is the first stage whose
\* result is failing, no stage after i is executed and the run returns an
\* ExecutionResult with status Failure and stages_executed = i.  Under
\* LocalExecutor, which has no ExecutionResult, a later stage is only ever
\* started after every earlier stage recorded a result that is not failing,
\* and a run ended by a stage's error has executed nothing after that stage.
C5_FailFast ==
  /\ (SequentialRunDone /\ pipeline.retry = <<>> /\ FirstFailing # 0)
       => /\ result.k = "ok"
          /\ result.status = "Failure"
          /\ result.stages_executed = FirstFailing
          /\ \A e \in DOMAIN ctx.log : ctx.log[e].path[1] <= FirstFailing
  /\ (engine = "local" /\ pipeline.retry = <<>>)
       => /\ \A e \in DOMAIN ctx.log : \A j \in 1..(ctx.log[e].path[1] - 1) :
               j \in DOMAIN stage_results /\ ~Failing(stage_results[j])
          /\ (pc = "done" /\ stage_idx <= Len(pipeline.stages))
               => /\ result.k # "ok" \/ Failing(result.status)
                  /\ \A e \in DOMAIN ctx.log : ctx.log[e].path[1] <= stage_idx

C5_Witness ==
  /\ SequentialRunDone
  /\ strategy = "sequential"
  /\ pipeline.retry = <<>>
  /\ Len(pipeline.stages) = 3
  /\ FirstFailing = 2
  /\ result.stages_executed = 2

\* Stage s has executed (some of) its primary part: own steps or branches.
PrimaryRan(s) == EntriesOf(s, 1) \cup EntriesOf(s, 3) # {}

PrimaryFailed(s) == \E i \in EntriesOf(s, 1) \cup EntriesOf(s, 3) : FailedAt(i)

PostRan(s, p) == \E i \in EntriesOf(s, 2) : ctx.log[i].path[3] = p

\* C6: whatever the terminal status of a stage's primary execution, Failure
\* included, the stage's Always post-condition steps are executed, and its
\* Success post-condition steps are executed if and only if that status is
\* Success.
C6_PostSelection ==
  pc = "done" =>
    \A s \in DOMAIN pipeline.stages : \A p \in DOMAIN pipeline.stages[s].post :
      PrimaryRan(s) =>
        /\ pipeline.stages[s].post[p].cond = "Always" => PostRan(s, p)
        /\ pipeline.stages[s].post[p].cond = "Success"
             => (PostRan(s, p) <=> ~PrimaryFailed(s))

\* Some post-condition step failed, and nothing else did.
OnlyPostFailed ==
  /\ \E i \in DOMAIN ctx.log : ctx.log[i].path[2] = 2 /\ FailedAt(i)
  /\ \A i \in DOMAIN ctx.log : ctx.log[i].path[2] # 2 => ~FailedAt(i)

\* C7: when a step of a qualifying post-condition step list fails, the
\* stage's result and the pipeline's final result stay those of the primary
\* execution: a run in which only post-condition steps failed records
\* Success for every stage that ran and returns Success.
C7_PostFailureIsolated ==
  (pc = "done" /\ engine = "local" /\ OnlyPostFailed)
    => /\ result.k = "ok"
       /\ result.status = "Success"
       /\ \A s \in DOMAIN pipeline.stages :
            PrimaryRan(s) => s \in DOMAIN stage_results /\ stage_results[s] = "Success"

\* The parallel stage whose branch threads are the current ones has returned.
BranchesOf(kind) ==
  /\ engine = "local"
  /\ threads # <<>>
  /\ pc # "join"
  /\ IF kind = "matrix" THEN pipeline.stages[threads[1].stage].matrix # <<>>
     ELSE pipeline.stages[threads[1].stage].matrix = <<>>

SomeBranchFailed == \E b \in DOMAIN threads : threads[b].res.k # "ok"

\* What LocalExecutor::execute_stage returned for stage s.
StageErred(s) == pc = "done" /\ result.k # "ok" /\ stage_idx = s

StageSucceeded(s) == s \in DOMAIN stage_results /\ stage_results[s] = "Success"

\* ParallelStrategy has returned; its branches are the pipeline's stages.
ParallelRunDone == pc = "done" /\ strategy = "parallel"

SomeTaskFailed ==
  \E t \in DOMAIN threads :
    threads[t].res.k # "ok" \/ threads[t].res.v \notin {"Success", "Unstable"}

RanToCompletion(s, b) ==
  LET mine == {i \in EntriesOf(s, 3) : ctx.log[i].path[3] = b}
      th == threads[b]
      Ran(k) == \E i \in mine : ctx.log[i].path[4] = k
      RanUpTo(n) ==
        /\ \A i \in mine : ctx.log[i].path[4] <= n
        /\ \A k \in 1..n : th.steps[k].type \in {"Shell", "Echo"} => Ran(k)
  IN /\ th.state = "done"
     /\ IF th.res.k = "ok"
          THEN RanUpTo(Len(th.steps)) /\ \A i \in mine : ~FailedAt(i)
          ELSE \E i \in mine : RanUpTo(ctx.log[i].path[4]) /\ FailedAt(i)

\* C9: when a parallel branch fails, every sibling branch still runs to its
\* own completion before the stage returns; none is cancelled early.  Under
\* ParallelStrategy every spawned stage task has returned before the run does.
C9_SiblingsComplete ==
  /\ (engine = "local" /\ threads # <<>> /\ pc # "join")
       => \A b \in DOMAIN threads : RanToCompletion(threads[1].stage, b)
  /\ ParallelRunDone
       => /\ Len(threads) = Len(pipeline.stages)
          /\ \A t \in DOMAIN threads :
               threads[t].state = "done" /\ threads[t].res # NoResult

\* A branch failed and a sibling executed a step after that failure, to
\* its own end.
C9_Witness ==
  /\ BranchesOf("parallel")
  /\ \E a, b \in DOMAIN threads :
       /\ a # b
       /\ threads[a].res.k = "err"
       /\ threads[b].res.k = "ok"
       /\ \E i, j \in EntriesOf(threads[1].stage, 3) :
            /\ ctx.log[i].path[3] = a /\ FailedAt(i)
            /\ ctx.log[j].path[3] = b /\ j > i

\* Whether the sub-run of some cell of cells[n..] fails, the sub-runs
\* running one after the other on the same context.
RECURSIVE SomeCellFails(_, _)
SomeCellFails(n, c) ==
  IF n > Len(generate_cells(pipeline.matrix[1])) THEN FALSE
  ELSE LET run == SequentialOutcome(pipeline.stages, 1, c)
       IN run.first # 0 \/ SomeCellFails(n + 1, run.ctx)

\* C10: the aggregated result of a matrix execution is Failure if the
\* sub-run of at least one generated cell fails, and Success otherwise: for
\* MatrixStrategy over the cells of the pipeline's matrix, for LocalExecutor
\* over the branches generated from a stage's matrix.
C10_MatrixAggregate ==
  /\ (pc = "done" /\ strategy = "matrix" /\ pipeline.matrix # <<>>)
       => result.status = IF SomeCellFails(1, NewContext) THEN "Failure"
                          ELSE "Success"
  /\ BranchesOf("matrix")
       => IF SomeBranchFailed THEN StageErred(threads[1].stage)
          ELSE StageSucceeded(threads[1].stage)

Statuses ==
  {"Pending", "Running", "Success", "Failure", "Unstable", "Skipped", "Aborted",
   "Timeout"}

\* C11: every pipeline run ends by returning a result that carries a
\* definitive status; a step-level operational error has become a Failure
\* result with the message attached, and no error or panic reaches the caller.
C11_NoErrorEscapes ==
  pc = "done"
    => /\ result.k = "ok"
       /\ result.status \in Statuses \ {"Pending", "Running"}

\* C12: when the deadline of a Timeout step expires the inner step is
\* cancelled: none of its actions takes place after the Timeout step has
\* returned (no execution is started by a thread that outlived its deadline).
C12_InnerCancelled ==
  \A i \in DOMAIN ctx.log : ~ctx.log[i].late

\* The k-th attempt of StepExecutor::execute_retry on inner, the attempts
\* before it having returned errors.
RECURSIVE AttemptOf(_, _)
AttemptOf(inner, k) ==
  LET before == IF k = 1 THEN NewContext
                ELSE [AttemptOf(inner, k - 1).ctx EXCEPT !.clock = @ + RetryBackoff]
  IN StepExecutor_execute(inner, before, <<>>, <<1, 1>>)

\* body is one Retry step that StepExecutor has run.
RetryReturned ==
  /\ engine = "runtime"
  /\ ret # NoResult
  /\ Len(body) = 1
  /\ body[1].type = "Retry"

\* Attempt k is the first that does not return an error, and it returns a
\* status other than Success.
StatusAtAttempt(k) ==
  /\ \A j \in 1..(k - 1) : AttemptOf(body[1].steps[1], j).k = "err"
  /\ AttemptOf(body[1].steps[1], k).k = "ok"
  /\ AttemptOf(body[1].steps[1], k).v # "Success"

\* C13: if an attempt of the inner step of Retry(n, inner) returns a status
\* that is neither Success nor an error, the Retry step returns that status
\* at once: nothing is executed and no time passes after that attempt.
C13_StatusShortCircuits ==
  RetryReturned =>
    \A k \in 1..(body[1].count + 1) :
      StatusAtAttempt(k)
        => /\ ret = Returned(AttemptOf(body[1].steps[1], k))
           /\ ctx = AttemptOf(body[1].steps[1], k).ctx

C13_Witness ==
  /\ RetryReturned
  /\ body[1].count = 2
  /\ StatusAtAttempt(2)
  /\ ret = [k |-> "ok", v |-> "Failure"]
  /\ Len(ctx.log) = 2

\* C14: a stage whose when-condition evaluates to false is marked Skipped
\* and that result is recorded, none of its steps or post-conditions run, and
\* the run goes on with the next stage.
C14_WhenFalseSkipped ==
  \A s \in DOMAIN pipeline.stages :
    ~when_holds(pipeline.stages[s], PipelineEnv) =>
      /\ \A i \in DOMAIN ctx.log : ctx.log[i].path[1] # s
      /\ (engine = "local" /\ s \in DOMAIN stage_results)
           => stage_results[s] = "Skipped"

\* When the execution logged at position i ends: its start plus the time the
\* backend gives that invocation of the command.
EndOf(i) ==
  LET k == Cardinality({j \in 1..i : ctx.log[j].what = ctx.log[i].what})
  IN ctx.log[i].t + Backend(ctx.log[i].what, k).dur

\* Execution i started first (at the same tick, it is logged first) and has
\* not ended when execution j starts.
InProgressTogether(i, j) ==
  /\ \/ ctx.log[i].t < ctx.log[j].t
     \/ ctx.log[i].t = ctx.log[j].t /\ i < j
  /\ ctx.log[j].t < EndOf(i)

\* C16: within one step sequence no two executions are in progress at the
\* same time, work started by a Retry or Timeout step of the sequence
\* included: an execution starts only when every earlier one has ended.
C16_OneAtATime ==
  ret # NoResult =>
    \A i \in DOMAIN ctx.log : \A j \in DOMAIN ctx.log : ~InProgressTogether(i, j)

UnstashTask(t) ==
  /\ threads[t].state = "done"
  /\ threads[t].steps # <<>>
  /\ threads[t].steps[1].type = "Unstash"

\* C18: the clones handed to the concurrently running stage tasks share one
\* stash map: an Unstash in a task succeeds exactly if a Stash of that name
\* was made before it, by whatever task, and not taken out since; and the
\* context the tasks were cloned from holds the map all of them left.
C18_SharedStashes ==
  strategy = "parallel" =>
    /\ DOMAIN ctx.stashes = StashesAfter(Len(ctx.log))
    /\ \A t \in DOMAIN threads :
         UnstashTask(t) =>
           \E i \in DOMAIN ctx.log :
             /\ ctx.log[i].path = Append(StepsPath(threads[t].name), 1)
             /\ ctx.log[i].op = "unstash"
             /\ threads[t].res.v = "Success"
                  <=> ctx.log[i].what \in StashesAfter(i - 1)

\* A task unstashed what the task of a later stage had stashed.
C18_Witness ==
  /\ strategy = "parallel"
  /\ \E t \in DOMAIN threads :
       /\ UnstashTask(t)
       /\ threads[t].res.v = "Success"
       /\ \E i \in DOMAIN ctx.log :
            /\ ctx.log[i].op = "stash"
            /\ ctx.log[i].what = threads[t].steps[1].command
            /\ ctx.log[i].path[1] > threads[t].name

\* The working directory the step at position p of steps runs in when
\* nothing but the Dir steps around it has changed cwd.
RECURSIVE OwnCwd(_, _, _)
OwnCwd(steps, p, cwd) ==
  IF Len(p) <= 1 THEN cwd
  ELSE LET st == steps[p[1]]
       IN OwnCwd(st.steps, Tail(p), IF st.type = "Dir" THEN st.command ELSE cwd)

Untouched(c) ==
  /\ c.working_dir = NewContext.working_dir
  /\ c.dir_stack = NewContext.dir_stack
  /\ c.parameters = NewContext.parameters

\* C19: when the stage tasks of ParallelStrategy run concurrently, what one
\* task does to its working directory and directory stack is seen by no
\* other task and not by the context they were cloned from: that context and
\* the clone of every task that has not run yet stay as they were, and every
\* execution runs in the directory its own enclosing Dir steps give it.
C19_ClonesIndependent ==
  strategy = "parallel" =>
    /\ Untouched(ctx)
    /\ \A t \in DOMAIN threads : threads[t].state = "running" => Untouched(threads[t].local)
    /\ \A i \in DOMAIN ctx.log :
         ctx.log[i].cwd = OwnCwd(pipeline.stages[ctx.log[i].path[1]].steps,
                                 SubSeq(ctx.log[i].path, 3, Len(ctx.log[i].path)),
                                 NewContext.working_dir)

\* A task whose Dir step was cut off by a timeout has ended with the
\* directory still pushed on its clone, and another task has run after it.
C19_Witness ==
  /\ strategy = "parallel"
  /\ \E t \in DOMAIN threads :
       /\ threads[t].state = "done"
       /\ threads[t].local.dir_stack # <<>>
       /\ \E i, j \in DOMAIN ctx.log :
            /\ i < j
            /\ ctx.log[i].path[1] = threads[t].name
            /\ ctx.log[i].cwd = "sub"
            /\ ctx.log[j].path[1] # threads[t].name
            /\ ctx.log[j].path[1] > threads[t].name

\* Task t is at an await that has not completed: on the file system
\* (create_dir_all, copy_all), on the stash-map lock, or on the future of
\* the listener.
Suspended(t) == tasks[t].pc \in {"create_dir_all", "copy_all", "lock", "on_event"}

Holds(t) == {l \in DOMAIN locks : locks[l] = t}

\* C20: no lock is held across a suspension point: a suspended task holds
\* neither the stash-map lock nor any other lock.
C20_NoLockAcrossAwait ==
  \A t \in DOMAIN tasks : Suspended(t) => Holds(t) = {}

\* C21: after a Dir(path, inner_steps) step has returned, whether the inner
\* steps succeeded, returned a non-Success status or raised an error, the
\* working directory and the directory stack of the context are what they
\* were before the step.
C21_DirRestores ==
  (ret # NoResult /\ Len(body) = 1 /\ body[1].type = "Dir")
    => /\ ctx.working_dir = NewContext.working_dir
       /\ ctx.dir_stack = NewContext.dir_stack

\* Step i of body is an Unstash that is reached, and no step before it is a
\* Stash of its name.
UnstashOfMissing(i) ==
  /\ ret # NoResult
  /\ body[i].type = "Unstash"
  /\ \A j \in 1..(i - 1) :
       /\ Success(AloneAt(body, j, NewContext, <<>>))
       /\ body[j] # Stash(body[i].command)

\* C22: an Unstash of a name that has not been stashed earlier in the run
\* returns the status Failure.
C22_UnstashMissingFails ==
  \A i \in 1..Len(body) :
    UnstashOfMissing(i) => ret = [k |-> "ok", v |-> "Failure"]

\* body is two Stash steps of one name followed by an Unstash of it, and
\* has returned.
StashedTwice ==
  /\ ret # NoResult
  /\ Len(body) = 3
  /\ body[1].type = "Stash" /\ body[2].type = "Stash"
  /\ body[1].command = body[2].command
  /\ body[3] = Unstash(body[2].command)

\* C23: after two Stash steps of the same name a following Unstash restores
\* what the second Stash took, and nothing that only the first took.
C23_RestashOverwrites ==
  StashedTwice =>
    \E i \in DOMAIN ctx.log :
      /\ ctx.log[i].op = "unstash"
      /\ ctx.log[i].files = body[2].includes

\* ---------------------------------------------------------------------
\* Matrix cell generation as a function of the matrix alone: the matrix is
\* pipeline.matrix[1], the generated list is left in cells, and via names
\* the function that produced it.
\* ---------------------------------------------------------------------

MaxAxes == 2
MaxValues == 2

AxisNames == {"os", "arch"}

ValuePool == <<"a", "b", "c", "d">>

\* Value lists an axis may carry: neither validate rejects a repeated value.
ValueLists ==
  {SubSeq(ValuePool, 1, n) : n \in 1..MaxValues} \cup {<<"a", "a">>}

AxisLists ==
  UNION {[1..n -> {Axis(name, values) : name \in AxisNames, values \in ValueLists}]
           : n \in 1..MaxAxes}

\* One exclusion: a value for each key of a list of distinct keys.
RuleKeys == {<<"os">>, <<"arch">>, <<"os", "arch">>}

RuleValues == {"a", "b"}

Rules ==
  UNION {{[i \in DOMAIN keys |-> <<keys[i], vals[i]>>] : vals \in [DOMAIN keys -> RuleValues]}
           : keys \in RuleKeys}

Matrices ==
  {[axes |-> axes, excludes |-> excludes] :
     axes \in AxisLists, excludes \in {<<>>} \cup {<<rule>> : rule \in Rules}}

MatrixFnInit ==
  /\ engine \in {"runtime", "local"}
  /\ body = <<>>
  /\ pipeline \in {[NoPipeline EXCEPT !.matrix = <<m>>] : m \in Matrices}
  /\ strategy = "none"
  /\ max_concurrent = 0
  /\ permits = 0
  /\ pc = "matrix"
  /\ Fresh

\* pipeliner-core MatrixConfig::generate_cells.
RunGenerateCells ==
  /\ engine = "runtime" /\ via = ""
  /\ cells' = generate_cells(pipeline.matrix[1])
  /\ via' = "generate_cells"
  /\ UNCHANGED <<body, ret, cfgVars, lockVars, poolVars, loopVars, parVars, caller, cell_idx,
                 cells_executed, cells_failed, ctx, pc, result>>

\* src/pipeline/mod.rs MatrixConfig::generate_combinations.
RunGenerateCombinations ==
  /\ engine = "local" /\ via = ""
  /\ cells' = generate_combinations(pipeline.matrix[1])
  /\ via' = "generate_combinations"
  /\ UNCHANGED <<body, ret, cfgVars, lockVars, poolVars, loopVars, parVars, caller, cell_idx,
                 cells_executed, cells_failed, ctx, pc, result>>

MatrixFnNext == RunGenerateCells \/ RunGenerateCombinations

SpecMatrix == MatrixFnInit /\ [][MatrixFnNext]_vars

\* ---------------------------------------------------------------------
\* Claims on matrix cell generation
\* ---------------------------------------------------------------------

Generated == via \in {"generate_cells", "generate_combinations"}

RECURSIVE ProductSize(_)
ProductSize(axes) ==
  IF axes = <<>> THEN 1 ELSE Len(Head(axes).values) * ProductSize(Tail(axes))

\* What a generated cell says about an axis: the map's entry under the
\* axis's name, or a pair of the combination carrying that name.
BindsAxis(cell, name, value) ==
  IF via = "generate_cells"
    THEN name \in DOMAIN cell.values /\ cell.values[name] = value
    ELSE \E j \in DOMAIN cell : cell[j] = <<name, value>>

ValueMap(cell) == IF via = "generate_cells" THEN cell.values ELSE cell

\* The elements of the cartesian product: one value position per axis.
Choices(axes) ==
  {c \in [DOMAIN axes -> 1..MaxValues + 1] :
     \A k \in DOMAIN axes : c[k] \in DOMAIN axes[k].values}

CellOf(axes, c, i) ==
  \A k \in DOMAIN axes : BindsAxis(cells[i], axes[k].name, axes[k].values[c[k]])

\* C24: with no exclusions, generation returns one cell per element of the
\* cartesian product of the axes: as many cells as the product of the axis
\* sizes, pairwise distinct value maps, each cell binding every axis.
C24_OneCellPerProductElement ==
  (Generated /\ pipeline.matrix[1].excludes = <<>>)
    => LET axes == pipeline.matrix[1].axes
       IN /\ Len(cells) = ProductSize(axes)
          /\ \A i, j \in DOMAIN cells : i # j => ValueMap(cells[i]) # ValueMap(cells[j])
          /\ \A c \in Choices(axes) : \E i \in DOMAIN cells : CellOf(axes, c, i)
          /\ \A i \in DOMAIN cells : \E c \in Choices(axes) : CellOf(axes, c, i)

DistinctNames(axes) == \A i, j \in DOMAIN axes : i # j => axes[i].name # axes[j].name

DistinctValues(axes) ==
  \A k \in DOMAIN axes : \A i, j \in DOMAIN axes[k].values :
    i # j => axes[k].values[i] # axes[k].values[j]

Generate(matrix) ==
  IF via = "generate_cells" THEN generate_cells(matrix) ELSE generate_combinations(matrix)

ValueMaps(seq) == [i \in DOMAIN seq |-> ValueMap(seq[i])]

\* A cell's values match all of a rule's key-value pairs.
MatchesRule(cell, rule) ==
  \A i \in DOMAIN rule :
    IF via = "generate_cells"
      THEN rule[i][1] \in DOMAIN cell /\ cell[rule[i][1]] = rule[i][2]
      ELSE \E j \in DOMAIN cell : cell[j] = rule[i]

\* The matrix has one exclusion rule, and it gives a value for every axis.
OneFullRule ==
  LET m == pipeline.matrix[1]
  IN /\ Len(m.excludes) = 1
     /\ {m.excludes[1][i][1] : i \in DOMAIN m.excludes[1]} = {m.axes[k].name : k \in DOMAIN m.axes}

\* C25: with one exclusion rule that gives a value for every axis, the
\* generated cells are the cells generated without the rule, less exactly
\* those whose values match all of the rule's pairs, in the same order.
C25_ExclusionRemovesMatching ==
  (Generated /\ OneFullRule)
    => LET m == pipeline.matrix[1]
           Kept(cell) == ~MatchesRule(cell, m.excludes[1])
       IN ValueMaps(cells) = SelectSeq(ValueMaps(Generate([m EXCEPT !.excludes = <<>>])), Kept)

C25_Witness ==
  /\ via = "generate_cells" /\ OneFullRule
  /\ Len(pipeline.matrix[1].axes) = 2
  /\ DistinctNames(pipeline.matrix[1].axes) /\ DistinctValues(pipeline.matrix[1].axes)
  /\ ProductSize(pipeline.matrix[1].axes) = 4
  /\ Len(cells) = 3

\* The value position of axis k in the element at position p (from 0) of the
\* nested loops over the axes in declaration order, the last axis innermost.
Digit(axes, k, p) ==
  ((p \div ProductSize(SubSeq(axes, k + 1, Len(axes)))) % Len(axes[k].values)) + 1

InLoopOrder(axes, cell, p) ==
  \A k \in DOMAIN axes : BindsAxis(cell, axes[k].name, axes[k].values[Digit(axes, k, p)])

\* C26: the generated cells are listed in nested-loop order over the axes in
\* declaration order, the last-declared axis varying fastest: without
\* exclusions the cell at position p binds every axis to the value the loops
\* reach at p, exclusions only drop cells from that list, and each cell's
\* index is its position in the list returned.
C26_NestedLoopOrder ==
  Generated
    => LET m == pipeline.matrix[1]
           all == Generate([m EXCEPT !.excludes = <<>>])
           Kept(cell) == \A x \in DOMAIN m.excludes : ~MatchesRule(cell, m.excludes[x])
       IN /\ Len(all) = ProductSize(m.axes)
          /\ \A p \in DOMAIN all : InLoopOrder(m.axes, all[p], p - 1)
          /\ ValueMaps(cells) = SelectSeq(ValueMaps(all), Kept)
          /\ via = "generate_cells" => \A i \in DOMAIN cells : cells[i].index = i - 1

\* ---------------------------------------------------------------------
\* Claims on what a run records and reports
\* ---------------------------------------------------------------------

\* Stage s was reached by the run that has ended: the loop over the stages
\* got to it (SequentialStrategy, LocalExecutor), or it was spawned
\* (ParallelStrategy spawns every stage before it joins any).
Reached(s) ==
  /\ pc = "done" /\ s \in DOMAIN pipeline.stages
  /\ \/ strategy \in {"sequential", "local"} /\ s <= stage_idx
     \/ strategy = "parallel"

\* C27: after a run, stage_results holds a recorded result for every stage
\* that was reached, executed or skipped, failing or not, and for no other;
\* keyed by stage, it holds one result for each.
C27_EveryReachedStageRecorded ==
  \A s \in 1..MaxStages : Reached(s) <=> (pc = "done" /\ s \in DOMAIN stage_results)

EventCount(kinds) == Cardinality({i \in DOMAIN events : events[i] \in kinds})

LogCount(ops) == Cardinality({i \in DOMAIN ctx.log : ctx.log[i].op \in ops})

\* C28: a run of the core hands the listener one event for each of its
\* transitions: one PipelineStarted and one PipelineCompleted or
\* PipelineFailed according to the result, one StageStarted and one
\* StageCompleted or StageFailed for every stage reached, one StepStarted
\* and one StepCompleted or StepFailed for every step executed, and one
\* StashCreated for every stash made.
C28_OneEventPerTransition ==
  (pc = "done" /\ engine = "runtime" /\ strategy \in {"sequential", "parallel"})
    => /\ EventCount({"PipelineStarted"}) = 1
       /\ EventCount({IF result.status = "Success" THEN "PipelineCompleted"
                      ELSE "PipelineFailed"}) = 1
       /\ EventCount({"StageStarted"}) = Cardinality({s \in 1..MaxStages : Reached(s)})
       /\ EventCount({"StageCompleted", "StageFailed"}) = EventCount({"StageStarted"})
       /\ EventCount({"StepStarted"}) = LogCount({"run", "stash", "unstash"})
       /\ EventCount({"StepCompleted", "StepFailed"}) = EventCount({"StepStarted"})
       /\ EventCount({"StashCreated"}) = LogCount({"stash"})

\* A run of LocalExecutor with pipeline-level retry in which a stage failed,
\* on a pipeline whose first stage starts with a plain command: the first
\* step's executions count the runs of the pipeline.
RetryCase ==
  /\ pc = "done" /\ engine = "local"
  /\ pipeline.retry # <<>> /\ result.k = "err"
  /\ LET first == pipeline.stages[1]
     IN /\ first.parallel = <<>> /\ first.matrix = <<>> /\ first.when = <<>>
        /\ first.steps[1].type \in {"Shell", "Echo"}

\* C29: with pipeline-level retry r, a failing stage makes the whole
\* pipeline run again from its first stage, and it runs again at most r
\* times: the first stage is executed at least twice and at most r + 1 times.
C29_PipelineRetried ==
  RetryCase => Attempts(Append(StepsPath(1), 1)) \in 2..(pipeline.retry[1] + 1)

\* ---------------------------------------------------------------------
\* Claims on the working directory inside Dir
\* ---------------------------------------------------------------------

\* The directory the step at position p of steps is to run in, from cwd:
\* every enclosing Dir joins its path to the directory around it.
RECURSIVE SeenCwd(_, _, _)
SeenCwd(steps, p, cwd) ==
  IF Len(p) <= 1 THEN cwd
  ELSE LET st == steps[p[1]]
       IN SeenCwd(st.steps, Tail(p), IF st.type = "Dir" THEN resolve(cwd, st.command) ELSE cwd)

\* C30: a step inside Dir(path, inner_steps) runs in the directory around
\* the Dir joined with path when path is relative and in path itself when
\* it is absolute, and so on through nested Dir steps.
C30_DirResolves ==
  via \in {"execute_steps", "execute_stage"}
    => \A i \in DOMAIN ctx.log :
         resolve(ProcessCwd, ctx.log[i].cwd) = SeenCwd(body, ctx.log[i].path, ProcessCwd)

\* ---------------------------------------------------------------------
\* Validation of a declared stage (src/pipeline/stage.rs and
\* pipeliner-core pipeline/mod.rs). The stage is pipeline.stages[1], the
\* result of validate is left in ret, and via names the function.
\* ---------------------------------------------------------------------

MaxNameLen == 100

LongName ==
  "aaaaaaaaaaaaaaaaaaaaaaaaaaaaaaaaaaaaaaaaaaaaaaaaaaaaaaaaaaaaaaaaaaaaaaaaaaaaaaaaaaaaaaaaaaaaaaaaaaaaa"

\* str::len of the names used here.
len(name) ==
  CASE name = ""       -> 0
    [] name = "Build"  -> 5
    [] name = LongName -> 101
    [] OTHER           -> 1

ValidOk == [k |-> "ok", v |-> "Unit"]
Invalid(error) == [k |-> "err", v |-> error]

Label(label) == [kind |-> "Label", image |-> label]
Docker(image) == [kind |-> "Docker", image |-> image]

\* AgentType::validate: Any is valid, a label or an image must not be empty.
AgentType_validate(agent) ==
  IF agent.kind = "Label" /\ agent.image = "" THEN Invalid("InvalidAgentType")
  ELSE IF agent.kind = "Docker" /\ agent.image = "" THEN Invalid("InvalidAgentType")
  ELSE ValidOk

\* WhenCondition::validate of an Environment condition.
WhenCondition_validate(when) ==
  IF when.kind = "Environment" /\ when.name = "" THEN Invalid("InvalidNameChars")
  ELSE ValidOk

\* src/pipeline/mod.rs MatrixConfig::validate: the first axis with an empty
\* name or with no values.
RECURSIVE MatrixConfig_validate_from(_, _)
MatrixConfig_validate_from(axes, i) ==
  IF i > Len(axes) THEN ValidOk
  ELSE IF axes[i].name = "" THEN Invalid("InvalidNameChars")
  ELSE IF axes[i].values = <<>> THEN Invalid("InvalidAgentType")
  ELSE MatrixConfig_validate_from(axes, i + 1)

MatrixConfig_validate(matrix) == MatrixConfig_validate_from(matrix.axes, 1)

\* A declared stage; agent, matrix and when are <<>> (None) or <<x>>, and a
\* parallel branch is [name, stage].
Declared(name, agent, steps, parallel, matrix, when) ==
  [name |-> name, agent |-> agent, steps |-> steps, parallel |-> parallel,
   matrix |-> matrix, when |-> when]

ParallelBranch(name, stage) == [name |-> name, stage |-> stage]

RECURSIVE Stage_validate(_)
RECURSIVE validate_branches_from(_, _)

\* `for branch in &self.parallel { branch.stage.validate()?; }`
validate_branches_from(parallel, i) ==
  IF i > Len(parallel) THEN ValidOk
  ELSE LET r == Stage_validate(parallel[i].stage)
       IN IF r.k = "ok" THEN validate_branches_from(parallel, i + 1) ELSE r

\* Without the test for an empty stage, a stage with nothing to do passes.
Stage_validate_allows_empty(stage) ==
  IF stage.name = "" THEN Invalid("EmptyName")
  ELSE IF len(stage.name) > MaxNameLen THEN Invalid("NameTooLong")
  ELSE IF stage.agent # <<>> /\ AgentType_validate(stage.agent[1]).k # "ok"
    THEN AgentType_validate(stage.agent[1])
  ELSE IF stage.when # <<>> /\ WhenCondition_validate(stage.when[1]).k # "ok"
    THEN WhenCondition_validate(stage.when[1])
  ELSE IF validate_branches_from(stage.parallel, 1).k # "ok"
    THEN validate_branches_from(stage.parallel, 1)
  ELSE IF stage.matrix # <<>> THEN MatrixConfig_validate(stage.matrix[1])
  ELSE ValidOk

\* src/pipeline/stage.rs Stage::validate.
Stage_validate(stage) ==
  IF stage.name = "" THEN Invalid("EmptyName")
  ELSE IF len(stage.name) > MaxNameLen THEN Invalid("NameTooLong")
  ELSE IF stage.steps = <<>> /\ stage.parallel = <<>> /\ stage.matrix = <<>>
    THEN Invalid("EmptyStage")
  ELSE IF stage.agent # <<>> /\ AgentType_validate(stage.agent[1]).k # "ok"
    THEN AgentType_validate(stage.agent[1])
  ELSE IF stage.when # <<>> /\ WhenCondition_validate(stage.when[1]).k # "ok"
    THEN WhenCondition_validate(stage.when[1])
  ELSE IF validate_branches_from(stage.parallel, 1).k # "ok"
    THEN validate_branches_from(stage.parallel, 1)
  ELSE IF stage.matrix # <<>> THEN MatrixConfig_validate(stage.matrix[1])
  ELSE ValidOk

\* pipeliner-core Stage::validate: the name and the steps only.
core_Stage_validate(stage) ==
  IF stage.name = "" THEN Invalid("EmptyName")
  ELSE IF stage.steps = <<>> THEN Invalid("EmptySteps")
  ELSE ValidOk

StageNames == {"", "Build", LongName}

Agents == {<<>>, <<Docker("rust")>>, <<Docker("")>>}

Whens == {<<>>, <<Environment("DEPLOY", "true")>>, <<Environment("", "true")>>}

DeclaredMatrices ==
  {<<>>, <<OsMatrix>>, <<[axes |-> <<>>, excludes |-> <<>>]>>,
   <<[axes |-> <<Axis("os", <<>>)>>, excludes |-> <<>>]>>}

DeclaredBranches ==
  {<<>>,
   <<ParallelBranch("a", Declared("a", <<>>, <<Echo("a")>>, <<>>, <<>>, <<>>))>>,
   <<ParallelBranch("a", Declared("a", <<>>, <<>>, <<>>, <<>>, <<>>))>>}

DeclaredStages ==
  {Declared(name, agent, steps, parallel, matrix, when) :
     name \in StageNames, agent \in Agents, steps \in {<<>>, <<Shell("exit 0")>>},
     parallel \in DeclaredBranches, matrix \in DeclaredMatrices, when \in Whens}

ValidateInit ==
  /\ engine \in {"runtime", "local"}
  /\ body = <<>>
  /\ pipeline \in {[NoPipeline EXCEPT !.stages = <<stage>>] : stage \in DeclaredStages}
  /\ strategy = "none"
  /\ max_concurrent = 0
  /\ permits = 0
  /\ pc = "validate"
  /\ Fresh

RunStageValidate ==
  /\ engine = "local" /\ ret = NoResult
  /\ ret' = Stage_validate(pipeline.stages[1])
  /\ via' = "Stage::validate"
  /\ UNCHANGED <<body, cfgVars, lockVars, poolVars, loopVars, parVars, matVars, ctx, pc, result>>

\* The stage of pipeliner-core has neither branches nor a matrix of its own.
RunCoreStageValidate ==
  /\ engine = "runtime" /\ ret = NoResult
  /\ pipeline.stages[1].parallel = <<>> /\ pipeline.stages[1].matrix = <<>>
  /\ ret' = core_Stage_validate(pipeline.stages[1])
  /\ via' = "core Stage::validate"
  /\ UNCHANGED <<body, cfgVars, lockVars, poolVars, loopVars, parVars, matVars, ctx, pc, result>>

ValidateNext == RunStageValidate \/ RunCoreStageValidate

SpecValidate == ValidateInit /\ [][ValidateNext]_vars

Validated == via \in {"Stage::validate", "core Stage::validate"}

\* C31: validation fails for every stage that has no steps, no parallel
\* branches and no matrix.
C31_EmptyStageInvalid ==
  (Validated /\ pipeline.stages[1].steps = <<>> /\ pipeline.stages[1].parallel = <<>>
             /\ pipeline.stages[1].matrix = <<>>)
    => ret.k = "err"

\* A well-named stage with nothing to do was validated and rejected as empty.
C31_Witness ==
  /\ via = "Stage::validate"
  /\ pipeline.stages[1].name = "Build" /\ pipeline.stages[1].agent = <<>>
  /\ pipeline.stages[1].steps = <<>> /\ pipeline.stages[1].parallel = <<>>
  /\ pipeline.stages[1].matrix = <<>>
  /\ ret = Invalid("EmptyStage")

\* ---------------------------------------------------------------------
\* Further claims on single steps
\* ---------------------------------------------------------------------

\* Entry i of the log is an Unstash that found its stash.
UnstashedAt(i) ==
  /\ ctx.log[i].op = "unstash"
  /\ ctx.log[i].what \in StashesAfter(i - 1)

NoStashBetween(name, i, j) ==
  \A k \in (i + 1)..(j - 1) : ~(ctx.log[k].op = "stash" /\ ctx.log[k].what = name)

\* C32: a successful unstash(name) removes name from the stash map: unless
\* the name is stashed again, has_stash(name) is false from then on, and a
\* second Unstash(name) returns Failure, which ends the step list.
C32_UnstashRemoves ==
  ret # NoResult
    => \A i \in DOMAIN ctx.log :
         UnstashedAt(i)
           => /\ NoStashBetween(ctx.log[i].what, i, Len(ctx.log) + 1)
                   => ctx.log[i].what \notin DOMAIN ctx.stashes
              /\ \A j \in DOMAIN ctx.log :
                   (/\ i < j /\ ctx.log[j].op = "unstash"
                    /\ ctx.log[j].what = ctx.log[i].what
                    /\ NoStashBetween(ctx.log[i].what, i, j))
                     => j = Len(ctx.log) /\ ret = [k |-> "ok", v |-> "Failure"]

\* A stash was made, taken out, and asked for a second time.
C32_Witness ==
  /\ via = "execute_steps"
  /\ body = <<Stash("build"), Unstash("build"), Unstash("build")>>
  /\ Len(ctx.log) = 3 /\ UnstashedAt(2)
  /\ ret = [k |-> "ok", v |-> "Failure"]

\* The body is one Timeout step around a Dir, and the deadline expired while
\* the Dir was in progress.
DirTimedOut ==
  /\ ret = [k |-> "ok", v |-> "Timeout"]
  /\ Len(body) = 1 /\ body[1].type = "Timeout"
  /\ body[1].steps[1].type = "Dir"

\* C33: when the deadline of a Timeout step expires while a Dir step inside
\* it is in progress, the working directory and the directory stack after
\* the Timeout step are what they were before it.
C33_TimeoutRestoresDir ==
  DirTimedOut
    => /\ ctx.working_dir = NewContext.working_dir
       /\ ctx.dir_stack = NewContext.dir_stack

\* ---------------------------------------------------------------------
\* Claims on steps inside branches
\* ---------------------------------------------------------------------

\* Every command of the steps ends the same way each time it is invoked.
RECURSIVE SteadySteps(_)
SteadySteps(steps) ==
  \A i \in DOMAIN steps :
    /\ steps[i].type = "Shell"
         => \A k \in 1..4 : Backend(steps[i].command, k) = Backend(steps[i].command, 1)
    /\ SteadySteps(steps[i].steps)

\* What was executed under the given position of the step tree, in order.
RECURSIVE WhatsUnder(_, _)
WhatsUnder(log, prefix) ==
  IF log = <<>> THEN <<>>
  ELSE LET e == Head(log)
           under == /\ Len(e.path) >= Len(prefix)
                    /\ SubSeq(e.path, 1, Len(prefix)) = prefix
       IN (IF under THEN <<e.what>> ELSE <<>>) \o WhatsUnder(Tail(log), prefix)

\* The steps of a branch or cell as the steps of a plain sequential stage.
PlainStage(th) ==
  LocalExecutor_execute_steps(th.steps, NewContext, BranchPath(th.stage, th.name))

\* C34: the steps of a parallel branch or of a matrix cell have the effect
\* and the result they have as the steps of a plain sequential stage: the
\* same commands are executed in the same order and the same success or
\* error comes back, a Retry or Timeout step inside a branch included.
C34_BranchStepsAsPlain ==
  engine = "local"
    => \A b \in DOMAIN threads :
         (threads[b].state = "done" /\ SteadySteps(threads[b].steps))
           => LET th == threads[b]
                  plain == PlainStage(th)
              IN /\ th.res.k = plain.k
                 /\ WhatsUnder(ctx.log, BranchPath(th.stage, th.name))
                      = WhatsUnder(plain.ctx.log, BranchPath(th.stage, th.name))

\* ---------------------------------------------------------------------
\* Claims on ParallelStrategy
\* ---------------------------------------------------------------------

\* The stage tasks that have been spawned and have not finished.
InProgress == {t \in DOMAIN threads : threads[t].state = "running"}

\* C35: at every moment of ParallelStrategy::execute at most max_concurrent
\* stages are in progress.
C35_AtMostMaxConcurrent ==
  strategy = "parallel" => Cardinality(InProgress) <= max_concurrent

\* max_concurrent stages are in progress and a further stage waits for a
\* permit.
C35_Witness ==
  /\ strategy = "parallel" /\ max_concurrent = MaxConcurrent
  /\ Cardinality(InProgress) = max_concurrent
  /\ stage_idx <= Len(pipeline.stages)
  /\ permits = 0

\* ParallelStrategy::execute alone, with the scheduling of the tokio
\* runtime: a task that can run is run, and so is the strategy's own future.
ParInit == Init /\ strategy = "parallel"

ParNext ==
  \/ ParSpawn
  \/ \E t \in DOMAIN threads : ParTask(t)
  \/ ParJoin
  \/ ParFinish

SpecPar == ParInit /\ [][ParNext]_vars /\ WF_vars(ParNext)

\* C36: ParallelStrategy::execute eventually returns a result, whatever
\* max_concurrent is, for every pipeline whose stages all terminate.
C36_ParallelReturns == <>(pc = "done" /\ result # NoRun)


\* ================================================ the job queue and its worker
\* crates/pipeliner-worker.  Ids stand for Uuids (next_id is the next
\* Uuid::new_v4()), created_at is the tick of `now` at which the job was made.
MaxJobs == 2
MaxIds == 5
MaxNow == 1
MaxWorkers == 2
MaxJobRetries == 1
MaxSubmits == 4
DefaultMaxRetries == 3
DefaultMaxConcurrent == 4
DispatchFactor == 4

\* JobPriority as its discriminant: Critical = 0, ..., Background = 4.
Critical == 0
Normal == 2
Background == 4
JobPriority == Critical..Background

Job_default(id, t) ==
  [id |-> id, pipeline |-> "None", priority |-> Normal, status |-> "Pending",
   created_at |-> t, error |-> "None", retries |-> 0, max_retries |-> DefaultMaxRetries]

Job_from_pipeline(id, t) == [Job_default(id, t) EXCEPT !.pipeline = "Some"]

with_priority(job, priority) == [job EXCEPT !.priority = priority]

with_max_retries(job, max) == [job EXCEPT !.max_retries = max]

Job_start(job) == [job EXCEPT !.status = "Running"]

Job_complete(job) == [job EXCEPT !.status = "Completed"]

Job_fail(job, error) == [job EXCEPT !.status = "Failed", !.error = error]

\* Job::retry: whether the job may be tried again, and the job afterwards.
Job_retry(job) ==
  IF job.retries >= job.max_retries
  THEN [ok |-> FALSE, job |-> job]
  ELSE [ok |-> TRUE, job |-> [job EXCEPT !.retries = @ + 1]]

JobEntry(job) == [priority |-> job.priority, id |-> job.id, created_at |-> job.created_at]

\* Ordering as -1 (Less), 0 (Equal), 1 (Greater).
Ord_cmp(a, b) == IF a < b THEN -1 ELSE IF a = b THEN 0 ELSE 1

then_with(first, second) == IF first # 0 THEN first ELSE second

JobEntry_cmp(self, other) ==
  then_with(Ord_cmp(other.priority, self.priority),
            Ord_cmp(other.created_at, self.created_at))

\* BinaryHeap::pop yields a greatest entry; which one of several that
\* compare Equal is left to the heap.
BinaryHeap_pop(heap) == {e \in heap : \A o \in heap : JobEntry_cmp(e, o) >= 0}

insert(map, key, value) ==
  [k \in DOMAIN map \cup {key} |-> IF k = key THEN value ELSE map[k]]

remove(map, key) == [k \in DOMAIN map \ {key} |-> map[k]]

\* The JobQueue all clones share.
JobQueue ==
  [pending |-> pending, processing |-> processing, completed |-> completed,
   cancelled |-> cancelled]

\* JobQueue::enqueue: the heap gets the entry, the job is dropped.  No entry
\* is pushed twice in this model, so the heap is a set.
enqueue(q, job) == [q EXCEPT !.pending = @ \cup {JobEntry(job)}]

\* JobQueue::dequeue when pop yields entry: a Job::default() (made at t with
\* the fresh id) is put into processing under the entry's id, and its clone
\* is returned.
dequeue(q, entry, id, t) ==
  LET job == Job_default(id, t)
  IN [q |-> [q EXCEPT !.pending = @ \ {entry},
                      !.processing = insert(@, entry.id, job)],
      job |-> job]

JobQueue_complete(q, id) ==
  IF id \in DOMAIN q.processing
  THEN LET job == q.processing[id]
       IN [q EXCEPT !.processing = remove(@, id),
                    !.completed = insert(@, job.id, job)]
  ELSE q

JobQueue_cancel(q, id) ==
  IF id \in DOMAIN q.processing
  THEN LET job == q.processing[id]
       IN [q EXCEPT !.processing = remove(@, id),
                    !.cancelled = insert(@, job.id, job)]
  ELSE q

\* run_pipeline's result under the job timeout: Ok(Ok(())), Ok(Err(e)) or
\* Err(Elapsed).
Outcomes == {"ok", "err", "timeout"}

\* Worker::execute_job on a worker with `active` jobs under way: the queue
\* and the worker's job afterwards, and whether the job was enqueued again
\* (and why).
execute_job(q, job0, active, cfg, outcome) ==
  IF active >= cfg.max_concurrent
  THEN [q |-> enqueue(q, job0), job |-> job0, requeue |-> "capacity"]
  ELSE LET job == Job_start(job0)
       IN CASE outcome = "ok" ->
                 [q |-> JobQueue_complete(q, job.id), job |-> Job_complete(job),
                  requeue |-> "no"]
            [] outcome = "err" ->
                 LET failed == Job_fail(job, "err")
                     again == Job_retry(failed)
                 IN IF again.ok
                    THEN [q |-> enqueue(q, again.job), job |-> again.job,
                          requeue |-> "retry"]
                    ELSE [q |-> JobQueue_complete(q, failed.id), job |-> failed,
                          requeue |-> "no"]
            [] OTHER ->
                 LET failed == Job_fail(job, "timeout")
                 IN [q |-> JobQueue_complete(q, failed.id), job |-> failed,
                     requeue |-> "no"]

Store(q) ==
  /\ pending' = q.pending
  /\ processing' = q.processing
  /\ completed' = q.completed
  /\ cancelled' = q.cancelled

\* A queue, its clients and one worker with WorkerConfig::default().
QueueInit ==
  /\ engine = "runtime"
  /\ body = <<>>
  /\ pipeline = NoPipeline
  /\ strategy = "none"
  /\ max_concurrent = 0
  /\ permits = 0
  /\ pc = "queue"
  /\ tasks = <<>> /\ locks = NoLocks /\ listener = "None" /\ events = <<>>
  /\ ret = NoResult /\ via = "" /\ ctx = NewContext /\ result = NoRun
  /\ caller = "top" /\ stage_idx = 1 /\ stages_executed = 0 /\ steps_executed = 0
  /\ stage_results = <<>> /\ threads = <<>> /\ results = <<>> /\ join = NoJoin
  /\ cells = <<>> /\ cell_idx = 1 /\ cells_executed = 0 /\ cells_failed = 0
  /\ pending = {} /\ processing = <<>> /\ completed = <<>> /\ cancelled = <<>>
  /\ next_id = 1 /\ now = 0 /\ enqueued = <<>>
  /\ config = [max_concurrent |-> DefaultMaxConcurrent]
  /\ submitted = {} /\ requeued = 0 /\ taken = NoTaken
  /\ workers = <<>> /\ sched = [pc |-> "none", available |-> 0]

notQueue == <<stepVars, cfgVars, lockVars, loopVars, parVars, matVars, ctx, pc, result>>

\* Utc::now() moves on.
Tick ==
  /\ now < MaxNow
  /\ now' = now + 1
  /\ UNCHANGED <<notQueue, pending, processing, completed, cancelled, next_id, enqueued,
                 workerVars>>

\* A client makes a job and enqueues it:
\* queue.enqueue(Job::from_pipeline(p).with_priority(..).with_max_retries(..)).
Enqueue(priority, max) ==
  /\ Cardinality(submitted) < MaxJobs /\ next_id <= MaxIds
  /\ LET job == with_max_retries(with_priority(Job_from_pipeline(next_id, now), priority), max)
     IN /\ Store(enqueue(JobQueue, job))
        /\ enqueued' = insert(enqueued, job.id, job)
        /\ submitted' = submitted \cup {job.id}
  /\ next_id' = next_id + 1
  /\ UNCHANGED <<notQueue, now, config, requeued, taken, workers, sched>>

\* A caller (the worker's feeder) takes the next job: queue.dequeue().
Dequeue ==
  /\ taken.state # "dequeued" /\ pending # {} /\ next_id <= MaxIds
  /\ \E entry \in BinaryHeap_pop(pending) :
       LET r == dequeue(JobQueue, entry, next_id, now)
       IN /\ Store(r.q)
          /\ taken' = [state |-> "dequeued", entry |-> entry, job |-> r.job,
                       from |-> pending]
  /\ next_id' = next_id + 1
  /\ UNCHANGED <<notQueue, now, enqueued, config, submitted, requeued, workers, sched>>

\* The worker runs the job it was handed: Worker::execute_job(job).  The
\* worker awaits each job before it receives the next, so none is active.
ExecuteJob(outcome) ==
  /\ taken.state = "dequeued"
  /\ LET r == execute_job(JobQueue, taken.job, 0, config, outcome)
     IN /\ Store(r.q)
        /\ taken' = [taken EXCEPT !.state = "executed", !.job = r.job] @@
                    [outcome |-> outcome, requeue |-> r.requeue]
        /\ requeued' = IF r.requeue = "retry" THEN requeued + 1 ELSE requeued
        /\ enqueued' = IF r.requeue = "no" THEN enqueued
                       ELSE insert(enqueued, r.job.id, r.job)
  /\ UNCHANGED <<notQueue, next_id, now, config, submitted, workers, sched>>

\* A client that knows a job's id: queue.complete(&id), queue.cancel(&id).
Complete(id) ==
  /\ id \in DOMAIN processing
  /\ Store(JobQueue_complete(JobQueue, id))
  /\ UNCHANGED <<notQueue, next_id, now, enqueued, workerVars>>

Cancel(id) ==
  /\ id \in DOMAIN processing
  /\ Store(JobQueue_cancel(JobQueue, id))
  /\ UNCHANGED <<notQueue, next_id, now, enqueued, workerVars>>

QueueNext ==
  \/ Tick
  \/ \E priority \in JobPriority, max \in 0..MaxJobRetries : Enqueue(priority, max)
  \/ Dequeue
  \/ \E outcome \in Outcomes : ExecuteJob(outcome)
  \/ \E id \in submitted : Complete(id)
  \/ \E id \in submitted : Cancel(id)

SpecQueue == QueueInit /\ [][QueueNext]_vars

\* C37: JobQueue::dequeue returns the pending job with the highest priority
\* (the lowest priority number) and, among pending jobs of that priority, one
\* created earliest: the job it returns has the id and the priority of such
\* a pending entry.
Foremost(heap) ==
  {e \in heap : \A o \in heap :
     \/ e.priority < o.priority
     \/ e.priority = o.priority /\ e.created_at <= o.created_at}

C37_DequeueByPriority ==
  taken.state = "dequeued" =>
    \E e \in Foremost(taken.from) :
      taken.job.id = e.id /\ taken.job.priority = e.priority

\* C38: the job JobQueue::dequeue returns is the job that was passed to
\* enqueue: same id, pipeline, priority and retry count.
Identity(job) ==
  [id |-> job.id, pipeline |-> job.pipeline, priority |-> job.priority,
   retries |-> job.retries]

C38_DequeueReturnsEnqueued ==
  taken.state = "dequeued" =>
    /\ taken.entry.id \in DOMAIN enqueued
    /\ Identity(taken.job) = Identity(enqueued[taken.entry.id])

\* C39: a job whose execution fails every time is enqueued again at most
\* max_retries times, and once the worker gives it up it is in the completed
\* set with status Failed.  Stated for a queue with one submitted job, whose
\* retries are then all the retries there are.
GivenUp ==
  taken.state = "executed" /\ taken.outcome # "ok" /\ taken.requeue = "no"

PoolInit ==
  /\ engine = "runtime"
  /\ body = <<>>
  /\ pipeline = NoPipeline
  /\ strategy = "none"
  /\ max_concurrent = 0
  /\ permits = 0
  /\ pc = "new"
  /\ tasks = <<>> /\ locks = NoLocks /\ listener = "None" /\ events = <<>>
  /\ ret = NoResult /\ via = "" /\ ctx = NewContext /\ result = NoRun
  /\ caller = "top" /\ stage_idx = 1 /\ stages_executed = 0 /\ steps_executed = 0
  /\ stage_results = <<>> /\ threads = <<>> /\ results = <<>> /\ join = NoJoin
  /\ cells = <<>> /\ cell_idx = 1 /\ cells_executed = 0 /\ cells_failed = 0
  /\ pending = {} /\ processing = <<>> /\ completed = <<>> /\ cancelled = <<>>
  /\ next_id = 1 /\ now = 0 /\ enqueued = <<>>
  /\ config \in {[max_concurrent |-> n] : n \in 1..MaxWorkers}
  /\ submitted = {} /\ requeued = 0 /\ taken = NoTaken
  /\ workers = <<>> /\ sched = [pc |-> "none", available |-> 0]

notPool == <<stepVars, cfgVars, lockVars, loopVars, parVars, matVars, ctx, result>>

\* WorkerPool::start: one Worker::run task per slot.  The sender of each
\* worker's channel is a local of the loop body and is dropped with it, so
\* the worker's receiver has no sender left and nothing in it.
WorkerPool_start ==
  /\ pc = "new"
  /\ workers' = [w \in 1..config.max_concurrent |->
                   [pc |-> "select", senders |-> 0, inbox |-> <<>>]]
  /\ pc' = "started"
  /\ UNCHANGED <<notPool, queueVars, config, submitted, requeued, taken, sched>>

worker_count == Len(workers)

queue_len == Cardinality(pending)

saturating_sub(a, b) == IF a >= b THEN a - b ELSE 0

\* WorkerPool::submit by a client of the started pool.
Submit(priority) ==
  /\ pc = "started"
  /\ Cardinality(submitted) < MaxSubmits /\ next_id <= MaxIds
  /\ LET job == with_priority(Job_from_pipeline(next_id, now), priority)
     IN /\ Store(enqueue(JobQueue, job))
        /\ enqueued' = insert(enqueued, job.id, job)
        /\ submitted' = submitted \cup {job.id}
  /\ next_id' = next_id + 1
  /\ UNCHANGED <<notPool, pc, now, config, requeued, taken, workers, sched>>

\* Scheduler::run is called.
Scheduler_run ==
  /\ sched.pc = "none"
  /\ sched' = [pc |-> "sleep", available |-> 0]
  /\ UNCHANGED <<notPool, pc, queueVars, config, submitted, requeued, taken, workers>>

\* Scheduler::run: the interval has passed; with jobs in the queue
\* dispatch_jobs starts and computes how many it may dispatch.
SchedulerWake ==
  /\ sched.pc = "sleep"
  /\ sched' = IF queue_len > 0
              THEN [pc |-> "dispatch",
                    available |-> saturating_sub(worker_count * DispatchFactor, queue_len)]
              ELSE sched
  /\ UNCHANGED <<notPool, pc, queueVars, config, submitted, requeued, taken, workers>>

\* dispatch_jobs, one turn of its loop: dequeue a job and pool.submit it,
\* which enqueues it again; the loop ends when the count or the queue is
\* used up.
DispatchJob ==
  /\ sched.pc = "dispatch"
  /\ IF sched.available > 0 /\ pending # {}
     THEN /\ next_id <= MaxIds
          /\ \E entry \in BinaryHeap_pop(pending) :
               LET r == dequeue(JobQueue, entry, next_id, now)
               IN /\ Store(enqueue(r.q, r.job))
                  /\ enqueued' = insert(enqueued, r.job.id, r.job)
          /\ next_id' = next_id + 1
          /\ sched' = [sched EXCEPT !.available = @ - 1]
     ELSE /\ sched' = [pc |-> "sleep", available |-> 0]
          /\ UNCHANGED <<pending, processing, completed, cancelled, next_id, enqueued>>
  /\ UNCHANGED <<notPool, pc, now, config, submitted, requeued, taken, workers>>

\* Worker::run, one turn of its select: a message of the channel is handled
\* (a job is executed, Stop ends the worker); a channel without message, or
\* closed, leaves the turn to the heartbeat timer.
WorkerSelect(w) ==
  /\ w \in DOMAIN workers /\ workers[w].pc = "select"
  /\ IF workers[w].inbox # <<>>
     THEN LET msg == Head(workers[w].inbox)
          IN IF msg.k = "Stop"
             THEN /\ workers' = [workers EXCEPT ![w].pc = "stopped", ![w].inbox = Tail(@)]
                  /\ UNCHANGED <<queueVars, requeued>>
             ELSE \E outcome \in Outcomes :
                    LET r == execute_job(JobQueue, msg.job, 0, config, outcome)
                    IN /\ Store(r.q)
                       /\ requeued' = IF r.requeue = "retry" THEN requeued + 1 ELSE requeued
                       /\ enqueued' = IF r.requeue = "no" THEN enqueued
                                      ELSE insert(enqueued, r.job.id, r.job)
                       /\ workers' = [workers EXCEPT ![w].inbox = Tail(@)]
                       /\ UNCHANGED <<next_id, now>>
     ELSE /\ workers' = [workers EXCEPT ![w].pc = "heartbeat"]
          /\ UNCHANGED <<queueVars, requeued>>
  /\ UNCHANGED <<notPool, pc, config, submitted, taken, sched>>

\* The heartbeat arm is empty: the loop goes round.
WorkerHeartbeat(w) ==
  /\ w \in DOMAIN workers /\ workers[w].pc = "heartbeat"
  /\ workers' = [workers EXCEPT ![w].pc = "select"]
  /\ UNCHANGED <<notPool, pc, queueVars, config, submitted, requeued, taken, sched>>

PoolTick ==
  /\ now < MaxNow
  /\ now' = now + 1
  /\ UNCHANGED <<notPool, pc, pending, processing, completed, cancelled, next_id, enqueued,
                 workerVars>>

SchedulerNext == Scheduler_run \/ SchedulerWake \/ DispatchJob

WorkerNext(w) == WorkerSelect(w) \/ WorkerHeartbeat(w)

PoolNext ==
  \/ WorkerPool_start
  \/ \E priority \in JobPriority : Submit(priority)
  \/ PoolTick
  \/ Scheduler_run
  \/ SchedulerWake
  \/ DispatchJob
  \/ \E w \in 1..MaxWorkers : WorkerSelect(w)
  \/ \E w \in 1..MaxWorkers : WorkerHeartbeat(w)

\* The pool is started and the scheduler is run; the tokio runtime runs the
\* scheduler task and every worker task whenever they can go on.  The
\* clients owe nothing.  The program never runs out of Uuids: a behaviour
\* that uses up the MaxIds ids of the model is cut short there, and is left
\* out.
SpecPool ==
  /\ PoolInit /\ [][PoolNext]_vars
  /\ WF_vars(WorkerPool_start)
  /\ WF_vars(SchedulerNext)
  /\ \A w \in 1..MaxWorkers : WF_vars(WorkerNext(w))
  /\ []<>(next_id <= MaxIds)

\* C40: every job submitted to a started WorkerPool, with the Scheduler
\* running, is eventually executed by a worker and moved to the completed
\* set.
Done(id) == \E k \in DOMAIN completed : k = id \/ completed[k].id = id

C40_SubmittedCompletes == \A id \in 1..MaxIds : (id \in submitted) ~> Done(id)

====
